---------------------------- MODULE Spec2Model ----------------------------
(***************************************************************************)
(* A model of node-marshal (ext/node-marshal): the BASE85R text codec      *)
(* (base85r.c), the leaf/dedup tables, the graph walker, the binary node   *)
(* encoder and the decoder/relocator (nodedump.c) and the schema registry  *)
(* (nodeinfo.c).                                                           *)
(*                                                                         *)
(* TLC integers are 32-bit signed, C's unsigned int is not: a 32-bit word  *)
(* is a sequence of 8 nibbles, most significant first, and the arithmetic  *)
(* the code does on unsigned int is done nibble by nibble, modulo 2^32.    *)
(***************************************************************************)
EXTENDS Integers, Sequences, FiniteSets, TLC

VARIABLES
    c_mode,     \* codec: "rt" (a byte string to encode) or "raw" (a text to decode)
    c_input,    \* codec: the byte string handed to base85r_encode
    c_text,     \* codec: the text handed to base85r_decode
    c_ws,       \* codec: number of whitespace bytes inserted into c_text
    c_result,   \* codec: what base85r_decode did
    c_oob,      \* codec: the int base85r_decode read behind char_to_val
    c_phase,    \* codec: "start", "encoded", "decoded"
    t_lti,      \* table: one LeafTableInfo
    t_first,    \* table: the distinct keys in the order of their first insertion,
                \*        each with the value it was first inserted with
    t_call,     \* table: the last call, its arguments and what it returned
    t_n,        \* table: number of calls made
    g_heap,     \* the nodes and args structs of the graph to be marshalled
    gc_disabled,\* whether the garbage collector is disabled
    e_self,     \* the instance variables of the NodeMarshal object that holds the graph
    e_call,     \* the last call on that object and how it ended
    d_dump,     \* the container that was loaded
    d_self,     \* the instance variables of the NodeMarshal object made from it
    d_load,     \* what the load allocated and built
    d_call,     \* the call that loaded it and how it ended
    v_val,      \* numbers: a VALUE, its sizeof(VALUE) bytes, most significant first
    v_buf,      \* numbers: the buffer value_to_bin wrote
    v_len,      \* numbers: the byte count value_to_bin returned
    v_out,      \* numbers: the VALUE bin_to_value returned
    v_phase,    \* numbers: "idle", "start", "written", "read"
    s_info,     \* schema: the table nodes_child_info of the build
    s_name,     \* schema: what the host's ruby_node_name gives for NODE_LAMBDA
    s_ctbl,     \* schema: the array nodes_ctbl, three slot kinds per node kind
    s_call,     \* schema: the call of init_nodes_table and how it ended
    s_defined   \* schema: whether the class NodeMarshal and its methods are defined

codec_vars == <<c_mode, c_input, c_text, c_ws, c_result, c_oob, c_phase>>

table_vars == <<t_lti, t_first, t_call, t_n>>

main_vars == <<g_heap, gc_disabled, e_self, e_call, d_dump, d_self, d_load, d_call>>

value_vars == <<v_val, v_buf, v_len, v_out, v_phase>>

schema_vars == <<s_info, s_name, s_ctbl, s_call, s_defined>>

vars == <<codec_vars, table_vars, main_vars, value_vars, schema_vars>>

(***************************************************************************)
(* Generic helpers                                                         *)
(***************************************************************************)
Range(s) == {s[i] : i \in 1..Len(s)}

SeqsUpTo(S, n) == UNION {[1..k -> S] : k \in 0..n}

\* rb_raise: the call does not return; the result carries the message
Raise(msg) == [raised |-> TRUE, msg |-> msg, str |-> <<>>]

Return(s) == [raised |-> FALSE, msg |-> "", str |-> s]

NoResult == [raised |-> FALSE, msg |-> "none", str |-> <<>>]

\* what follows a call in the code runs with the call's result, once
Bind(result, Rest(_)) == Rest(result)

\* ... and only if the call did not raise
Then(result, Rest(_)) == IF result.raised THEN result ELSE Rest(result)

(***************************************************************************)
(* 32-bit unsigned arithmetic on nibble sequences                          *)
(***************************************************************************)
RECURSIVE ToNibbles(_, _)
ToNibbles(n, k) == IF k = 0 THEN <<>> ELSE Append(ToNibbles(n \div 16, k - 1), n % 16)

\* an int 0 <= n < 2^31 as an unsigned int
Word(n) == ToNibbles(n, 8)

WordOfBytes(b0, b1, b2, b3) ==
    <<b0 \div 16, b0 % 16, b1 \div 16, b1 % 16, b2 \div 16, b2 % 16, b3 \div 16, b3 % 16>>

\* (val >> i) & 0xFF for i = 24, 16, 8, 0
BytesOfWord(w) == <<w[1] * 16 + w[2], w[3] * 16 + w[4], w[5] * 16 + w[6], w[7] * 16 + w[8]>>

RECURSIVE LongDiv(_, _, _, _, _)
LongDiv(w, d, i, r, q) ==
    IF i > Len(w) THEN [q |-> q, r |-> r]
    ELSE LET t == r * 16 + w[i]
         IN  LongDiv(w, d, i + 1, t % d, Append(q, t \div d))

\* unsigned w / d and w % d, for 0 < d < 2^26
UDiv(w, d) == LongDiv(w, d, 1, 0, <<>>).q
UMod(w, d) == LongDiv(w, d, 1, 0, <<>>).r

RECURSIVE MulCarry(_, _, _, _, _)
MulCarry(w, m, i, carry, acc) ==
    IF i = 0 THEN acc
    ELSE LET t == w[i] * m + carry
         IN  MulCarry(w, m, i - 1, t \div 16, <<t % 16>> \o acc)

\* w * m modulo 2^32, for 0 <= m < 2^20
UMul(w, m) == MulCarry(w, m, Len(w), 0, <<>>)

RECURSIVE AddCarry(_, _, _, _, _)
AddCarry(a, b, i, carry, acc) ==
    IF i = 0 THEN acc
    ELSE LET t == a[i] + b[i] + carry
         IN  AddCarry(a, b, i - 1, t \div 16, <<t % 16>> \o acc)

\* a + b modulo 2^32
UAdd(a, b) == AddCarry(a, b, Len(a), 0, <<>>)

(***************************************************************************)
(* base85r.c                                                               *)
(***************************************************************************)
BASE85R_STR_WIDTH == 14

di_val == <<52200625, 614125, 7225, 85, 1>>

\* "ABCDEFGHIJKLMNOPQRSTUVWXYZ" "abcdefghijklmnopqrstuvwxyz" "0123456789"
\* "!$%&()*-./" ":;<=>?@[]^" ",_|" as character codes; val_to_char[i] of the
\* code is val_to_char[i + 1] here
val_to_char ==
    [i \in 1..26 |-> 64 + i] \o [i \in 1..26 |-> 96 + i] \o [i \in 1..10 |-> 47 + i] \o
    <<33, 36, 37, 38, 40, 41, 42, 45, 46, 47>> \o
    <<58, 59, 60, 61, 62, 63, 64, 91, 93, 94>> \o
    <<44, 95, 124>>

CHAR_TO_VAL_SIZE == 128

\* base85r_init_tables: every entry -1, then char_to_val[val_to_char[i]] = i
char_to_val ==
    [c \in 0..(CHAR_TO_VAL_SIZE - 1) |->
        IF \E i \in 1..85 : val_to_char[i] = c
        THEN (CHOOSE i \in 1..85 : val_to_char[i] = c) - 1
        ELSE -1]

\* base85r_init_tables raises "Internal error" when a symbol occurs twice
base85r_init_tables_ok ==
    /\ \A i, j \in 1..85 : val_to_char[i] = val_to_char[j] => i = j
    /\ \A i \in 1..85 : char_to_val[val_to_char[i]] = i - 1

base85_encode_buf_len(len) ==
    LET aligned == ((len \div 4) * 4) + (IF len % 4 # 0 THEN 4 ELSE 0)
    IN  (((aligned * 5) \div 4) * 105) \div 100 + 32

\* the four bytes of one group, the input zero-padded: val |= inptr[pos++] << i
GroupWord(input, pos) ==
    LET at(k) == IF pos + k <= Len(input) THEN input[pos + k] ELSE 0
    IN  WordOfBytes(at(1), at(2), at(3), at(4))

\* digit = (val / di_val[i]) % 85; sym = val_to_char[digit]
GroupSymbols(val) ==
    [i \in 1..5 |-> val_to_char[UMod(UDiv(val, di_val[i]), 85) + 1]]

\* the loop of base85r_encode; pos counts the input bytes consumed so far
RECURSIVE EncodeLoop(_, _, _)
EncodeLoop(input, pos, out) ==
    IF pos >= Len(input) THEN out
    ELSE LET npos == IF pos + 4 <= Len(input) THEN pos + 4 ELSE Len(input)
             syms == GroupSymbols(GroupWord(input, pos))
             nl   == IF npos % (4 * BASE85R_STR_WIDTH) = 0 THEN <<10, 32>> ELSE <<>>
         IN  EncodeLoop(input, npos, out \o syms \o nl)

base85r_encode(input) ==
    LET inp_len     == Len(input)
        out_buf_len == base85_encode_buf_len(inp_len)
        out         == EncodeLoop(input, 0, <<32, val_to_char[(inp_len % 4) + 1]>>)
    IN  IF Len(out) >= out_buf_len
        THEN Raise("base85r_encode: internal memory error")
        ELSE Return(out)

\* char_to_val[(int) inptr[pos]]: inptr is unsigned char, the table has 128
\* entries; a byte above 127 reads past the table and yields whatever int is
\* there (oob)
CharToVal(byte, oob) == IF byte < CHAR_TO_VAL_SIZE THEN char_to_val[byte] ELSE oob

DecodeStart == [tail_len |-> -1, shift |-> 0, val |-> Word(0), out |-> <<>>, raised |-> FALSE]

DecodeStep_Checked(st, digit) ==
    IF digit = -1 THEN st
    ELSE IF st.tail_len = -1
         THEN [st EXCEPT !.tail_len = digit, !.raised = digit > 4]
         ELSE LET val   == UAdd(st.val, UMul(Word(di_val[st.shift + 1]), digit))
                  shift == st.shift + 1
              IN  IF st.shift = 0 /\ digit > 82
                  THEN [st EXCEPT !.raised = TRUE]
                  ELSE IF shift = 5
                  THEN [st EXCEPT !.val = Word(0), !.shift = 0,
                                  !.out = st.out \o BytesOfWord(val)]
                  ELSE [st EXCEPT !.val = val, !.shift = shift]

\* one pass of the for loop of base85r_decode
DecodeStep(st, digit) ==
    IF digit = -1 THEN st
    ELSE IF st.tail_len = -1
         THEN [st EXCEPT !.tail_len = digit, !.raised = digit > 4]
         ELSE LET val   == UAdd(st.val, UMul(Word(di_val[st.shift + 1]), digit))
                  shift == st.shift + 1
              IN  IF shift = 5
                  THEN [st EXCEPT !.val = Word(0), !.shift = 0,
                                  !.out = st.out \o BytesOfWord(val)]
                  ELSE [st EXCEPT !.val = val, !.shift = shift]

RECURSIVE DecodeLoop(_, _, _, _)
DecodeLoop(input, oob, pos, st) ==
    IF pos > Len(input) \/ st.raised THEN st
    ELSE DecodeLoop(input, oob, pos + 1, DecodeStep(st, CharToVal(input[pos], oob)))

\* rb_str_resize(output, out_len): a negative length raises
StrResize(buf, len) ==
    IF len < 0 THEN Raise("negative string size (or size too big)")
    ELSE Return(SubSeq(buf, 1, len))

DecodeFinish_NoShiftCheck(st) ==
    LET out_len == Len(st.out) - (IF st.tail_len # 0 THEN 4 - st.tail_len ELSE 0)
    IN  StrResize(st.out, out_len)

DecodeFinish_NoTail(st) ==
    IF st.shift # 0 THEN Raise("base85r_decode: input string is corrupted")
    ELSE StrResize(st.out, Len(st.out))

\* out_len behind the loop: 4 for every group written, then
\* if (tail_len != 0) out_len -= (4 - tail_len)
decode_out_len(st) == Len(st.out) - (IF st.tail_len # 0 THEN 4 - st.tail_len ELSE 0)

\* after the loop: the check of the byte sequence, then the unaligned tail
DecodeFinish(st) ==
    IF st.shift # 0 THEN Raise("base85r_decode: input string is corrupted")
    ELSE StrResize(st.out, decode_out_len(st))

\* if (inp_len < 6 && inp_len != 2) rb_raise
DecodeLengthOk(input) == ~(Len(input) < 6 /\ Len(input) # 2)

base85r_decode(input, oob) ==
    IF ~DecodeLengthOk(input) THEN Raise("base85r_decode: input string is too short")
    ELSE LET st == DecodeLoop(input, oob, 1, DecodeStart)
         IN  IF st.raised THEN Raise("base85r_decode: input string is corrupted")
             ELSE DecodeFinish(st)

(***************************************************************************)
(* Ruby objects, as far as nodedump.c looks at them: a type tag and the    *)
(* VALUE (an immediate) or the contents (a String, an Array)               *)
(***************************************************************************)
Qnil == [t |-> "T_NIL", v |-> 8]

RString(chars) == [t |-> "T_STRING", v |-> chars]

RArray(elems) == [t |-> "T_ARRAY", v |-> elems]

\* INT2FIX, FIX2INT: a Fixnum is the VALUE 2 * i + 1
INT2FIX(i) == [t |-> "T_FIXNUM", v |-> 2 * i + 1]

FIX2INT(x) == (x.v - 1) \div 2

\* a Ruby Hash: its entries in insertion order
RECURSIVE HashIndex(_, _, _)
HashIndex(h, key, i) ==
    IF i > Len(h) THEN 0
    ELSE IF h[i].key = key THEN i ELSE HashIndex(h, key, i + 1)

rb_hash_aref(h, key) ==
    LET i == HashIndex(h, key, 1) IN IF i = 0 THEN Qnil ELSE h[i].val

rb_hash_aset(h, key, val) ==
    LET i == HashIndex(h, key, 1)
    IN  IF i = 0 THEN Append(h, [key |-> key, val |-> val])
        ELSE [h EXCEPT ![i].val = val]

HashKeys(h) == [i \in 1..Len(h) |-> h[i].key]

(***************************************************************************)
(* nodedump.c, part 3: LeafTableInfo                                       *)
(***************************************************************************)
LeafTableInfo_init == [vals |-> <<>>, ids |-> <<>>, pos |-> 0]

LeafTableInfo_addEntry_NoLookup(lti, key, value) ==
    [lti |-> [vals |-> rb_hash_aset(lti.vals, key, value),
              ids  |-> rb_hash_aset(lti.ids, key, INT2FIX(lti.pos)),
              pos  |-> lti.pos + 1],
     id  |-> lti.pos]

\* returns the table after the call and the ordinal the call returns
LeafTableInfo_addEntry(lti, key, value) ==
    LET v_id == rb_hash_aref(lti.ids, key)
    IN  IF v_id = Qnil
        THEN [lti |-> [vals |-> rb_hash_aset(lti.vals, key, value),
                       ids  |-> rb_hash_aset(lti.ids, key, INT2FIX(lti.pos)),
                       pos  |-> lti.pos + 1],
              id  |-> lti.pos]
        ELSE [lti |-> lti, id |-> FIX2INT(v_id)]

\* keys = lti->vals.keys; keys[i] = lti->vals[keys[i]] for i < pos
LeafTableInfo_getLeavesTable(lti) ==
    LET keys == HashKeys(lti.vals)
    IN  RArray([i \in 1..Len(keys) |->
                   IF i <= lti.pos THEN rb_hash_aref(lti.vals, keys[i]) ELSE keys[i]])

LeafTableInfo_keyToID(lti, key) ==
    LET id == rb_hash_aref(lti.ids, key)
    IN  IF id = Qnil THEN -1 ELSE FIX2INT(id)

(***************************************************************************)
(* The host (ruby.h, Ruby 2.2 on a 64-bit platform) as nodedump.c sees it  *)
(***************************************************************************)
Qfalse == 0

Qtrue == 20

Qundef == 52

FIXNUM_FLAG == 1

FLONUM_FLAG == 2

\* RUBY_T_NODE, the low five bits of the flags word of every node
T_NODE == 27

\* the interpreter's symbol table: rb_id2str and rb_intern.  The last
\* identifier is an internal one, which has no name.
HostSymbols ==
    <<[id |-> 2417, name |-> <<120>>],
      [id |-> 2433, name |-> <<121>>],
      [id |-> 2449, name |-> <<>>]>>

rb_id2str(id) ==
    IF \E i \in 1..Len(HostSymbols) : HostSymbols[i].id = id /\ HostSymbols[i].name # <<>>
    THEN RString((CHOOSE s \in Range(HostSymbols) : s.id = id).name)
    ELSE [t |-> "T_FALSE", v |-> Qfalse]

\* a name the interpreter has not seen yet gets the next free identifier
rb_intern(name) ==
    IF \E i \in 1..Len(HostSymbols) : HostSymbols[i].name = name /\ name # <<>>
    THEN (CHOOSE s \in Range(HostSymbols) : s.name = name).id
    ELSE HostSymbols[Len(HostSymbols)].id + 16

\* the interpreter's global variable entries (struct rb_global_entry), by address
HostGlobals == (192 :> [id |-> 2417]) @@ (200 :> [id |-> 2433])

rb_global_entry(id) ==
    IF \E a \in DOMAIN HostGlobals : HostGlobals[a].id = id
    THEN CHOOSE a \in DOMAIN HostGlobals : HostGlobals[a].id = id
    ELSE 208

\* String objects on the Ruby heap that nodes use as literals
HostStrings == {128, 136}

\* local variable tables (ID *tbl: the size, then the identifiers), by address
HostIdTables == (160 :> <<2417, 2449>>) @@ (168 :> <<2433>>) @@ (176 :> <<>>)

\* RUBY_PLATFORM ("x64") and RUBY_VERSION ("2.2.1") of the running interpreter
RUBY_PLATFORM == RString(<<120, 54, 52>>)

RUBY_VERSION == RString(<<50, 46, 50, 46, 49>>)

\* "NODEMARSHAL11"
NODEMARSHAL_MAGIC == <<78, 79, 68, 69, 77, 65, 82, 83, 72, 65, 76, 49, 49>>

\* a C string: the bytes before the first NUL
RECURSIVE CStr(_)
CStr(s) == IF s = <<>> \/ Head(s) = 0 THEN <<>> ELSE <<Head(s)>> \o CStr(Tail(s))

strcmp(a, b) == IF CStr(a) = CStr(b) THEN 0 ELSE 1

(***************************************************************************)
(* node220.h: the node kinds and the flags word                            *)
(***************************************************************************)
node_type ==
    <<"NODE_SCOPE", "NODE_BLOCK", "NODE_IF", "NODE_CASE",
      "NODE_WHEN", "NODE_OPT_N", "NODE_WHILE", "NODE_UNTIL",
      "NODE_ITER", "NODE_FOR", "NODE_BREAK", "NODE_NEXT",
      "NODE_REDO", "NODE_RETRY", "NODE_BEGIN", "NODE_RESCUE",
      "NODE_RESBODY", "NODE_ENSURE", "NODE_AND", "NODE_OR",
      "NODE_MASGN", "NODE_LASGN", "NODE_DASGN", "NODE_DASGN_CURR",
      "NODE_GASGN", "NODE_IASGN", "NODE_IASGN2", "NODE_CDECL",
      "NODE_CVASGN", "NODE_CVDECL", "NODE_OP_ASGN1", "NODE_OP_ASGN2",
      "NODE_OP_ASGN_AND", "NODE_OP_ASGN_OR", "NODE_OP_CDECL", "NODE_CALL",
      "NODE_FCALL", "NODE_VCALL", "NODE_SUPER", "NODE_ZSUPER",
      "NODE_ARRAY", "NODE_ZARRAY", "NODE_VALUES", "NODE_HASH",
      "NODE_RETURN", "NODE_YIELD", "NODE_LVAR", "NODE_DVAR",
      "NODE_GVAR", "NODE_IVAR", "NODE_CONST", "NODE_CVAR",
      "NODE_NTH_REF", "NODE_BACK_REF", "NODE_MATCH", "NODE_MATCH2",
      "NODE_MATCH3", "NODE_LIT", "NODE_STR", "NODE_DSTR",
      "NODE_XSTR", "NODE_DXSTR", "NODE_EVSTR", "NODE_DREGX",
      "NODE_DREGX_ONCE", "NODE_ARGS", "NODE_ARGS_AUX", "NODE_OPT_ARG",
      "NODE_KW_ARG", "NODE_POSTARG", "NODE_ARGSCAT", "NODE_ARGSPUSH",
      "NODE_SPLAT", "NODE_TO_ARY", "NODE_BLOCK_ARG", "NODE_BLOCK_PASS",
      "NODE_DEFN", "NODE_DEFS", "NODE_ALIAS", "NODE_VALIAS",
      "NODE_UNDEF", "NODE_CLASS", "NODE_MODULE", "NODE_SCLASS",
      "NODE_COLON2", "NODE_COLON3", "NODE_CREF", "NODE_DOT2",
      "NODE_DOT3", "NODE_FLIP2", "NODE_FLIP3", "NODE_SELF",
      "NODE_NIL", "NODE_TRUE", "NODE_FALSE", "NODE_ERRINFO",
      "NODE_DEFINED", "NODE_POSTEXE", "NODE_ALLOCA", "NODE_BMETHOD",
      "NODE_MEMO", "NODE_IFUNC", "NODE_DSYM", "NODE_ATTRASGN",
      "NODE_PRELUDE", "NODE_LAMBDA", "NODE_LAST">>

\* the value of an enumerator of enum node_type
NodeType(name) == (CHOOSE i \in 1..Len(node_type) : node_type[i] = name) - 1

NODE_TYPESHIFT == 8

NODE_LSHIFT == 15

RECURSIVE Pow2(_)
Pow2(k) == IF k = 0 THEN 1 ELSE 2 * Pow2(k - 1)

\* nd_type(n): (flags & NODE_TYPEMASK) >> NODE_TYPESHIFT, NODE_TYPEMASK = 0x7f << 8
nd_type(n) == (n.flags \div Pow2(NODE_TYPESHIFT)) % 128

\* the flags word that NEW_NODE and nd_set_line give a node of a kind on a line
NodeFlags(name, line) ==
    T_NODE + NodeType(name) * Pow2(NODE_TYPESHIFT) + line * Pow2(NODE_LSHIFT)

\* TYPE(value) for the values the model's heaps hold; nodes is the set of
\* addresses of the objects whose flags word says T_NODE
TYPE(nodes, v) ==
    IF v = Qfalse THEN "T_FALSE"
    ELSE IF v = Qtrue THEN "T_TRUE"
    ELSE IF v = Qnil.v THEN "T_NIL"
    ELSE IF v = Qundef THEN "T_UNDEF"
    ELSE IF v % 2 = FIXNUM_FLAG THEN "T_FIXNUM"
    ELSE IF v % 4 = FLONUM_FLAG THEN "T_FLOAT"
    ELSE IF v \in nodes THEN "T_NODE"
    ELSE IF v \in HostStrings THEN "T_STRING"
    ELSE "T_DATA"

(***************************************************************************)
(* nodedump.h, nodeinfo.c: the schema table                                *)
(***************************************************************************)
NT_NULL == 0

NT_UNKNOWN == 1

NT_NODE == 2

NT_VALUE == 3

NT_ID == 4

NT_LONG == 5

NT_ARGS == 6

NT_ENTRY == 7

NT_IDTABLE == 8

NT_MEMORY == 9

VL_RAW == 0

VL_NODE == 1

VL_ID == 2

VL_GVAR == 3

VL_IDTABLE == 4

VL_ARGS == 5

VL_LIT == 6

nodes_child_info ==
    <<<<"NODE_BLOCK", NT_NODE, NT_NULL, NT_NODE>>,
      <<"NODE_IF", NT_NODE, NT_NODE, NT_NODE>>,
      <<"NODE_CASE", NT_NODE, NT_NODE, NT_NULL>>,
      <<"NODE_WHEN", NT_NODE, NT_NODE, NT_NODE>>,
      <<"NODE_OPT_N", NT_NULL, NT_NODE, NT_LONG>>,
      <<"NODE_WHILE", NT_NODE, NT_NODE, NT_LONG>>,
      <<"NODE_UNTIL", NT_NODE, NT_NODE, NT_LONG>>,
      <<"NODE_ITER", NT_VALUE, NT_NODE, NT_NODE>>,
      <<"NODE_FOR", NT_VALUE, NT_NODE, NT_NODE>>,
      <<"NODE_BREAK", NT_NODE, NT_NULL, NT_NULL>>,
      <<"NODE_NEXT", NT_NODE, NT_NULL, NT_NULL>>,
      <<"NODE_RETURN", NT_NODE, NT_NULL, NT_NULL>>,
      <<"NODE_REDO", NT_NULL, NT_NULL, NT_NULL>>,
      <<"NODE_RETRY", NT_NULL, NT_NULL, NT_NULL>>,
      <<"NODE_BEGIN", NT_NULL, NT_NODE, NT_NULL>>,
      <<"NODE_RESCUE", NT_NODE, NT_NODE, NT_NODE>>,
      <<"NODE_RESBODY", NT_NODE, NT_NODE, NT_NODE>>,
      <<"NODE_ENSURE", NT_NODE, NT_NULL, NT_NODE>>,
      <<"NODE_AND", NT_NODE, NT_NODE, NT_NULL>>,
      <<"NODE_OR", NT_NODE, NT_NODE, NT_NULL>>,
      <<"NODE_MASGN", NT_NODE, NT_NODE, NT_NODE>>,
      <<"NODE_LASGN", NT_ID, NT_NODE, NT_NULL>>,
      <<"NODE_DASGN", NT_ID, NT_NODE, NT_NULL>>,
      <<"NODE_DASGN_CURR", NT_ID, NT_NODE, NT_NULL>>,
      <<"NODE_IASGN", NT_ID, NT_NODE, NT_NULL>>,
      <<"NODE_CVASGN", NT_ID, NT_NODE, NT_NULL>>,
      <<"NODE_GASGN", NT_NULL, NT_NODE, NT_ENTRY>>,
      <<"NODE_CDECL", NT_ID, NT_NODE, NT_NODE>>,
      <<"NODE_OP_ASGN1", NT_NODE, NT_ID, NT_NODE>>,
      <<"NODE_OP_ASGN2", NT_NODE, NT_NODE, NT_NODE>>,
      <<"NODE_OP_ASGN_AND", NT_NODE, NT_NODE, NT_NULL>>,
      <<"NODE_OP_ASGN_OR", NT_NODE, NT_NODE, NT_NULL>>,
      <<"NODE_CALL", NT_NODE, NT_ID, NT_NODE>>,
      <<"NODE_FCALL", NT_NULL, NT_ID, NT_NODE>>,
      <<"NODE_VCALL", NT_NULL, NT_ID, NT_NULL>>,
      <<"NODE_SUPER", NT_NULL, NT_NULL, NT_NODE>>,
      <<"NODE_ZSUPER", NT_NULL, NT_NULL, NT_NULL>>,
      <<"NODE_ARRAY", NT_NODE, NT_LONG, NT_NODE>>,
      <<"NODE_VALUES", NT_NODE, NT_LONG, NT_NODE>>,
      <<"NODE_ZARRAY", NT_NULL, NT_NULL, NT_NULL>>,
      <<"NODE_HASH", NT_NODE, NT_NULL, NT_NULL>>,
      <<"NODE_YIELD", NT_NODE, NT_NULL, NT_NULL>>,
      <<"NODE_LVAR", NT_ID, NT_NULL, NT_NULL>>,
      <<"NODE_DVAR", NT_ID, NT_NULL, NT_NULL>>,
      <<"NODE_IVAR", NT_ID, NT_NULL, NT_NULL>>,
      <<"NODE_CONST", NT_ID, NT_NULL, NT_NULL>>,
      <<"NODE_CVAR", NT_ID, NT_NULL, NT_NULL>>,
      <<"NODE_GVAR", NT_NULL, NT_NULL, NT_ENTRY>>,
      <<"NODE_NTH_REF", NT_NULL, NT_LONG, NT_NULL>>,
      <<"NODE_BACK_REF", NT_NULL, NT_LONG, NT_LONG>>,
      <<"NODE_MATCH", NT_VALUE, NT_NULL, NT_NULL>>,
      <<"NODE_MATCH2", NT_NODE, NT_NODE, NT_NULL>>,
      <<"NODE_MATCH3", NT_NODE, NT_NODE, NT_NULL>>,
      <<"NODE_LIT", NT_VALUE, NT_NULL, NT_NULL>>,
      <<"NODE_STR", NT_VALUE, NT_NULL, NT_NULL>>,
      <<"NODE_XSTR", NT_VALUE, NT_NULL, NT_NULL>>,
      <<"NODE_DSTR", NT_VALUE, NT_NULL, NT_NODE>>,
      <<"NODE_DXSTR", NT_VALUE, NT_NULL, NT_NODE>>,
      <<"NODE_DREGX", NT_VALUE, NT_NULL, NT_NODE>>,
      <<"NODE_DREGX_ONCE", NT_VALUE, NT_NULL, NT_NODE>>,
      <<"NODE_DSYM", NT_VALUE, NT_NULL, NT_NODE>>,
      <<"NODE_EVSTR", NT_NULL, NT_NODE, NT_NULL>>,
      <<"NODE_ARGSCAT", NT_NODE, NT_NODE, NT_NULL>>,
      <<"NODE_ARGSPUSH", NT_NODE, NT_NODE, NT_NULL>>,
      <<"NODE_SPLAT", NT_NODE, NT_NULL, NT_NULL>>,
      <<"NODE_BLOCK_PASS", NT_NODE, NT_NODE, NT_NODE>>,
      <<"NODE_DEFN", NT_NULL, NT_ID, NT_NODE>>,
      <<"NODE_DEFS", NT_NODE, NT_ID, NT_NODE>>,
      <<"NODE_ALIAS", NT_NODE, NT_NODE, NT_NULL>>,
      <<"NODE_VALIAS", NT_ID, NT_ID, NT_NULL>>,
      <<"NODE_UNDEF", NT_NULL, NT_NODE, NT_NULL>>,
      <<"NODE_CLASS", NT_NODE, NT_NODE, NT_NODE>>,
      <<"NODE_MODULE", NT_NODE, NT_NODE, NT_NULL>>,
      <<"NODE_SCLASS", NT_NODE, NT_NODE, NT_NULL>>,
      <<"NODE_COLON2", NT_NODE, NT_ID, NT_NULL>>,
      <<"NODE_COLON3", NT_NULL, NT_ID, NT_NULL>>,
      <<"NODE_DOT2", NT_NODE, NT_NODE, NT_NULL>>,
      <<"NODE_DOT3", NT_NODE, NT_NODE, NT_NULL>>,
      <<"NODE_FLIP2", NT_NODE, NT_NODE, NT_NULL>>,
      <<"NODE_FLIP3", NT_NODE, NT_NODE, NT_NULL>>,
      <<"NODE_SELF", NT_NULL, NT_NULL, NT_NULL>>,
      <<"NODE_NIL", NT_NULL, NT_NULL, NT_NULL>>,
      <<"NODE_TRUE", NT_NULL, NT_NULL, NT_NULL>>,
      <<"NODE_FALSE", NT_NULL, NT_NULL, NT_NULL>>,
      <<"NODE_ERRINFO", NT_NULL, NT_NULL, NT_NULL>>,
      <<"NODE_DEFINED", NT_NODE, NT_NULL, NT_NULL>>,
      <<"NODE_POSTEXE", NT_NULL, NT_NODE, NT_NULL>>,
      <<"NODE_ATTRASGN", NT_NODE, NT_ID, NT_NODE>>,
      <<"NODE_PRELUDE", NT_NODE, NT_NODE, NT_NULL>>,
      <<"NODE_LAMBDA", NT_NULL, NT_NODE, NT_NULL>>,
      <<"NODE_OPT_ARG", NT_NULL, NT_NODE, NT_NODE>>,
      <<"NODE_POSTARG", NT_NODE, NT_NODE, NT_NULL>>,
      <<"NODE_ARGS", NT_NULL, NT_VALUE, NT_ARGS>>,
      <<"NODE_SCOPE", NT_IDTABLE, NT_NODE, NT_NODE>>,
      <<"NODE_ARGS_AUX", NT_LONG, NT_LONG, NT_NODE>>>>

NODES_CTBL_SIZE == 256

\* init_nodes_table: every kind is NT_UNKNOWN unless nodes_child_info lists it
nodes_ctbl ==
    [nt \in 0..(NODES_CTBL_SIZE - 1) |->
        IF \E pos \in 1..Len(nodes_child_info) : NodeType(nodes_child_info[pos][1]) = nt
        THEN LET pos == CHOOSE pos \in 1..Len(nodes_child_info) :
                            /\ NodeType(nodes_child_info[pos][1]) = nt
                            /\ \A q \in (pos + 1)..Len(nodes_child_info) :
                                   NodeType(nodes_child_info[q][1]) # nt
             IN  <<nodes_child_info[pos][2], nodes_child_info[pos][3], nodes_child_info[pos][4]>>
        ELSE <<NT_UNKNOWN, NT_UNKNOWN, NT_UNKNOWN>>]

\* the switch of check_nodes_child_info (Ruby 2 variant): the slots of a
\* kind that hold a node or a value; a kind in no group is the default case
isval_switch ==
    <<[kinds |-> {"NODE_IF", "NODE_FOR", "NODE_ITER", "NODE_WHEN", "NODE_MASGN",
                    "NODE_RESCUE", "NODE_RESBODY", "NODE_CLASS", "NODE_BLOCK_PASS"},
       isval |-> <<1, 1, 1>>],
      [kinds |-> {"NODE_BLOCK", "NODE_ARRAY", "NODE_DSTR", "NODE_DXSTR",
                    "NODE_DREGX", "NODE_DREGX_ONCE", "NODE_ENSURE", "NODE_CALL",
                    "NODE_DEFS", "NODE_OP_ASGN1"},
       isval |-> <<1, 0, 1>>],
      [kinds |-> {"NODE_SUPER", "NODE_FCALL", "NODE_DEFN", "NODE_ARGS_AUX"},
       isval |-> <<0, 0, 1>>],
      [kinds |-> {"NODE_WHILE", "NODE_UNTIL", "NODE_AND", "NODE_OR", "NODE_CASE",
                    "NODE_SCLASS", "NODE_DOT2", "NODE_DOT3", "NODE_FLIP2",
                    "NODE_FLIP3", "NODE_MATCH2", "NODE_MATCH3", "NODE_OP_ASGN_OR",
                    "NODE_OP_ASGN_AND", "NODE_MODULE", "NODE_ALIAS",
                    "NODE_ARGSCAT"},
       isval |-> <<1, 1, 0>>],
      [kinds |-> {"NODE_GASGN", "NODE_LASGN", "NODE_DASGN", "NODE_DASGN_CURR",
                    "NODE_IASGN", "NODE_IASGN2", "NODE_CVASGN", "NODE_OPT_N",
                    "NODE_EVSTR", "NODE_UNDEF", "NODE_POSTEXE"},
       isval |-> <<0, 1, 0>>],
      [kinds |-> {"NODE_HASH", "NODE_LIT", "NODE_STR", "NODE_XSTR",
                    "NODE_DEFINED", "NODE_MATCH", "NODE_RETURN", "NODE_BREAK",
                    "NODE_NEXT", "NODE_YIELD", "NODE_COLON2", "NODE_SPLAT",
                    "NODE_TO_ARY"},
       isval |-> <<1, 0, 0>>],
      [kinds |-> {"NODE_SCOPE", "NODE_CDECL", "NODE_OPT_ARG"},
       isval |-> <<0, 1, 1>>],
      [kinds |-> {"NODE_ARGS"},
       isval |-> <<0, 1, 0>>],
      [kinds |-> {"NODE_ZARRAY", "NODE_ZSUPER", "NODE_VCALL", "NODE_GVAR",
                    "NODE_LVAR", "NODE_DVAR", "NODE_IVAR", "NODE_CVAR",
                    "NODE_NTH_REF", "NODE_BACK_REF", "NODE_REDO", "NODE_RETRY",
                    "NODE_SELF", "NODE_NIL", "NODE_TRUE", "NODE_FALSE",
                    "NODE_ERRINFO", "NODE_BLOCK_ARG"},
       isval |-> <<0, 0, 0>>]>>

check_nodes_child_info_Unchecked(info, pos, name) == Return(<<>>)

\* check_nodes_child_info(pos) on the table info, name being
\* ruby_node_name(NODE_LAMBDA) of the host
check_nodes_child_info(info, pos, name) ==
    LET type      == info[pos][1]
        listed    == \E g \in 1..Len(isval_switch) : type \in isval_switch[g].kinds
        isval     == isval_switch[CHOOSE g \in 1..Len(isval_switch) :
                                      type \in isval_switch[g].kinds].isval
        isval_tbl == [i \in 1..3 |->
                         IF info[pos][i + 1] = NT_NODE \/ info[pos][i + 1] = NT_VALUE
                         THEN 1 ELSE 0]
    IN  IF name # "NODE_LAMBDA" THEN Raise("Invalid NODE_LAMBDA position")
        ELSE IF ~listed THEN Return(<<>>)
        ELSE IF \E i \in 1..3 : isval[i] - isval_tbl[i] # 0
             THEN Raise("Bad node entry in the initial table")
        ELSE Return(<<>>)

\* init_nodes_table(ctbl, NODES_CTBL_SIZE) on the table info: every entry is
\* checked, then ctbl is filled; a raise leaves ctbl as it was
init_nodes_table(info, ctbl, name) ==
    LET bad == {pos \in 1..Len(info) : check_nodes_child_info(info, pos, name).raised}
        first == CHOOSE pos \in bad : \A q \in bad : pos <= q
        entries(nt) == {pos \in 1..Len(info) :
                           nt < Len(node_type) /\ info[pos][1] = node_type[nt + 1]}
        last(nt) == CHOOSE pos \in entries(nt) : \A q \in entries(nt) : q <= pos
    IN  IF bad # {}
        THEN [raised |-> TRUE, msg |-> check_nodes_child_info(info, first, name).msg,
              ctbl |-> ctbl]
        ELSE [raised |-> FALSE, msg |-> "",
              ctbl |-> [nt \in 0..(NODES_CTBL_SIZE - 1) |->
                           IF entries(nt) # {}
                           THEN <<info[last(nt)][2], info[last(nt)][3], info[last(nt)][4]>>
                           ELSE <<NT_UNKNOWN, NT_UNKNOWN, NT_UNKNOWN>>]]

(***************************************************************************)
(* nodedump.c, part 2: generic utilities                                   *)
(***************************************************************************)
is_value_in_heap(val) ==
    ~(\/ val = Qfalse \/ val = Qtrue \/ val = Qnil.v \/ val = Qundef
      \/ val % 2 = FIXNUM_FLAG
      \/ val % 4 = FLONUM_FLAG)

\* '0'..'9', 'a'..'f'
HexChar(d) == IF d < 10 THEN 48 + d ELSE 87 + d

HexVal(c) ==
    IF c \in 48..57 THEN c - 48
    ELSE IF c \in 97..102 THEN c - 87
    ELSE IF c \in 65..70 THEN c - 55
    ELSE -1

RECURSIVE HexDigits(_)
HexDigits(val) ==
    IF val < 16 THEN <<HexChar(val)>> ELSE Append(HexDigits(val \div 16), HexChar(val % 16))

\* sprintf(str, "%lx", val)
value_to_str(val) == RString(HexDigits(val))

RECURSIVE ScanHex(_, _, _)
ScanHex(chars, i, acc) ==
    IF i > Len(chars) \/ HexVal(chars[i]) = -1 THEN acc
    ELSE ScanHex(chars, i + 1, acc * 16 + HexVal(chars[i]))

\* sscanf(str, "%lx", &ans) with ans = Qnil beforehand
str_to_value(str) ==
    IF str.v = <<>> \/ HexVal(str.v[1]) = -1 THEN Qnil.v ELSE ScanHex(str.v, 1, 0)

RECURSIVE value_to_bin_KeepZero(_)
value_to_bin_KeepZero(val) ==
    IF val < 256 THEN <<val>> ELSE Append(value_to_bin_KeepZero(val \div 256), val % 256)

\* the bytes value_to_bin writes: big-endian, leading zero bytes dropped;
\* the length of the result is the number it returns
RECURSIVE value_to_bin(_)
value_to_bin(val) ==
    IF val = 0 THEN <<>> ELSE Append(value_to_bin(val \div 256), val % 256)

\* val |= byte << (i * 8) for i = len - 1 .. 0
RECURSIVE bin_to_value(_)
bin_to_value(buf) ==
    IF buf = <<>> THEN 0 ELSE bin_to_value(SubSeq(buf, 1, Len(buf) - 1)) * 256 + buf[Len(buf)]

\* sizeof(VALUE) of the builds: VALUE is an unsigned long of 4 or of 8 bytes
SizeofValue == {4, 8}

value_to_bin_bytes_KeepZero(val) == [buf |-> val, len |-> Len(val)]

\* value_to_bin on a VALUE of full width, given as its sizeof(VALUE) bytes,
\* most significant first: byte (val >> (i * 8)) & 0xFF is val[Len(val) - i]
value_to_bin_bytes(val) ==
    LET RECURSIVE loop(_, _)
        loop(i, buf) ==
            IF i < 0 THEN buf
            ELSE LET byte == val[Len(val) - i]
                 IN  loop(i - 1, IF Len(buf) > 0 \/ byte # 0 THEN Append(buf, byte) ELSE buf)
        out == loop(Len(val) - 1, <<>>)
    IN  [buf |-> out, len |-> Len(out)]

\* bin_to_value into a VALUE of size bytes, for len <= size (a shift by the
\* width or more does not happen): val |= byte << (i * 8) sets byte size - i,
\* counted from the most significant one, of a val that starts as 0
bin_to_value_bytes(buf, len, size) ==
    LET RECURSIVE loop(_, _, _)
        loop(i, k, val) ==
            IF i < 0 THEN val
            ELSE loop(i - 1, k + 1, [val EXCEPT ![size - i] = buf[k]])
    IN  loop(len - 1, 1, [p \in 1..size |-> 0])

(***************************************************************************)
(* nodedump.c, part 3: NODEInfo and the graph walker                       *)
(*                                                                         *)
(* A heap is [nodes |-> address -> [flags, u1, u2, u3],                     *)
(*            args  |-> address -> struct rb_args_info]                    *)
(***************************************************************************)
LeafTableInfo_addIDEntry(lti, id) ==
    LET r_idval == rb_id2str(id)
    IN  LeafTableInfo_addEntry(lti, INT2FIX(id),
                               IF r_idval.t # "T_STRING" THEN INT2FIX(id) ELSE r_idval)

NODEInfo_init ==
    [syms     |-> LeafTableInfo_init,
     lits     |-> LeafTableInfo_init,
     idtabs   |-> LeafTableInfo_init,
     args     |-> LeafTableInfo_init,
     gentries |-> LeafTableInfo_init,
     nodes    |-> LeafTableInfo_init]

\* the Ruby object a VALUE in a literal slot refers to
RObject(heap, value) == [t |-> TYPE(DOMAIN heap.nodes, value), v |-> value]

NODEInfo_addValue(info, heap, value) ==
    IF is_value_in_heap(value)
    THEN [info EXCEPT !.lits =
              LeafTableInfo_addEntry(info.lits, value_to_str(value), RObject(heap, value)).lti]
    ELSE info

WalkReturn(num, info) == [raised |-> FALSE, msg |-> "", num |-> num, info |-> info]

WalkRaise(msg, info) == [raised |-> TRUE, msg |-> msg, num |-> 0, info |-> info]

AddSym(info, id) == [info EXCEPT !.syms = LeafTableInfo_addIDEntry(info.syms, id).lti]

RECURSIVE AddSyms(_, _)
AddSyms(info, ids) ==
    IF ids = <<>> THEN info ELSE AddSyms(AddSym(info, Head(ids)), Tail(ids))

WalkerTypes_NoSelf(heap, node, parent) ==
    LET n  == heap.nodes[node]
        p  == heap.nodes[parent]
        t0 == nodes_ctbl[nd_type(n)]
        t1 == IF nd_type(n) = NodeType("NODE_OP_ASGN2") /\ nd_type(p) = NodeType("NODE_OP_ASGN2")
              THEN <<NT_ID, NT_ID, NT_ID>>
              ELSE t0
    IN  IF nd_type(n) = NodeType("NODE_ARGS_AUX")
        THEN <<IF n.u1 = 0 THEN NT_NULL ELSE NT_ID,
               IF n.u2 = 0 THEN NT_NULL
               ELSE IF nd_type(p) = NodeType("NODE_ARGS_AUX") THEN NT_LONG ELSE NT_ID,
               IF n.u3 = 0 THEN NT_NULL ELSE NT_NODE>>
        ELSE t1

\* ut[] as count_num_of_nodes computes it for a node reached from parent
WalkerTypes(heap, node, parent) ==
    LET n  == heap.nodes[node]
        p  == heap.nodes[parent]
        t0 == nodes_ctbl[nd_type(n)]
        t1 == IF nd_type(n) = NodeType("NODE_OP_ASGN2") /\ nd_type(p) = NodeType("NODE_OP_ASGN2")
              THEN <<NT_ID, NT_ID, NT_ID>>
              ELSE t0
        t2 == IF nd_type(n) = NodeType("NODE_ARGS_AUX")
              THEN <<IF n.u1 = 0 THEN NT_NULL ELSE NT_ID,
                     IF n.u2 = 0 THEN NT_NULL
                     ELSE IF nd_type(p) = NodeType("NODE_ARGS_AUX") THEN NT_LONG ELSE NT_ID,
                     IF n.u3 = 0 THEN NT_NULL ELSE NT_NODE>>
              ELSE t1
    IN  IF nd_type(n) = NodeType("NODE_ATTRASGN") /\ n.u1 = 1
        THEN <<NT_LONG, t2[2], t2[3]>>
        ELSE t2

RECURSIVE count_num_of_nodes(_, _, _, _)
RECURSIVE WalkNodes(_, _, _, _, _)
\* count_num_of_nodes on each of the nodes in turn, adding up what they return
WalkNodes(heap, children, parent, info, num) ==
    IF children = <<>> THEN WalkReturn(num, info)
    ELSE Then(count_num_of_nodes(heap, Head(children), parent, info),
              LAMBDA r : WalkNodes(heap, Tail(children), parent, r.info, num + r.num))

\* a) child 1
WalkChild1(heap, node, ut, info) ==
    LET n == heap.nodes[node]
    IN  IF ut = NT_NODE THEN count_num_of_nodes(heap, n.u1, node, info)
        ELSE IF ut = NT_ID THEN WalkReturn(0, AddSym(info, n.u1))
        ELSE IF ut = NT_VALUE
             THEN IF TYPE(DOMAIN heap.nodes, n.u1) = "T_NODE"
                  THEN WalkRaise("NODE instead of VALUE in child 1", info)
                  ELSE WalkReturn(0, NODEInfo_addValue(info, heap, n.u1))
        ELSE IF ut = NT_IDTABLE
             THEN LET tkey  == value_to_str(n.u1)
                      idtbl == IF n.u1 # 0 THEN HostIdTables[n.u1] ELSE <<>>
                      ary   == RArray([i \in 1..Len(idtbl) |-> INT2FIX(idtbl[i])])
                  IN  WalkReturn(0, [AddSyms(info, idtbl) EXCEPT !.idtabs =
                                        LeafTableInfo_addEntry(@, tkey, ary).lti])
        ELSE IF ut # NT_LONG /\ ut # NT_NULL THEN WalkRaise("1!", info)
        ELSE WalkReturn(0, info)

\* b) child 2
WalkChild2(heap, node, ut, info) ==
    LET n == heap.nodes[node]
    IN  IF ut = NT_NODE THEN count_num_of_nodes(heap, n.u2, node, info)
        ELSE IF ut = NT_ID THEN WalkReturn(0, AddSym(info, n.u2))
        ELSE IF ut = NT_VALUE
             THEN IF TYPE(DOMAIN heap.nodes, n.u2) = "T_NODE"
                  THEN WalkRaise("NODE instead of VALUE in child 2", info)
                  ELSE WalkReturn(0, NODEInfo_addValue(info, heap, n.u2))
        ELSE IF ut # NT_LONG /\ ut # NT_NULL THEN WalkRaise("2!", info)
        ELSE WalkReturn(0, info)

\* the Array the walker stores for a struct rb_args_info
ArgsEntry(ainfo) ==
    RArray(<<value_to_str(ainfo.pre_init), value_to_str(ainfo.post_init),
             INT2FIX(ainfo.pre_args_num), INT2FIX(ainfo.post_args_num),
             INT2FIX(ainfo.first_post_arg), INT2FIX(ainfo.rest_arg), INT2FIX(ainfo.block_arg),
             value_to_str(ainfo.kw_args), value_to_str(ainfo.kw_rest_arg),
             value_to_str(ainfo.opt_args)>>)

\* c) child 3
WalkChild3(heap, node, ut, info) ==
    LET n == heap.nodes[node]
    IN  IF ut = NT_NODE THEN count_num_of_nodes(heap, n.u3, node, info)
        ELSE IF ut = NT_ID THEN WalkReturn(0, AddSym(info, n.u3))
        ELSE IF ut = NT_ARGS
             THEN LET ainfo == heap.args[n.u3]
                      asyms == SelectSeq(<<ainfo.first_post_arg, ainfo.rest_arg, ainfo.block_arg>>,
                                         LAMBDA asym : asym # 0)
                  IN  Then(WalkNodes(heap, <<ainfo.pre_init, ainfo.post_init, ainfo.kw_args,
                                             ainfo.kw_rest_arg, ainfo.opt_args>>,
                                     node, info, 0),
                           LAMBDA r :
                               WalkReturn(r.num, [AddSyms(r.info, asyms) EXCEPT !.args =
                                   LeafTableInfo_addEntry(@, value_to_str(n.u3),
                                                          ArgsEntry(ainfo)).lti]))
        ELSE IF ut = NT_ENTRY
             THEN Bind(LeafTableInfo_addIDEntry(info.syms, HostGlobals[n.u3].id),
                       LAMBDA r :
                           WalkReturn(0, [info EXCEPT
                               !.syms = r.lti,
                               !.gentries = LeafTableInfo_addEntry(@, value_to_str(n.u3),
                                                                   INT2FIX(r.id)).lti]))
        ELSE IF ut # NT_LONG /\ ut # NT_NULL THEN WalkRaise("Invalid child node 3", info)
        ELSE WalkReturn(0, info)

count_num_of_nodes_PostOrder(heap, node, parent, info) ==
    IF node = 0 THEN WalkReturn(0, info)
    ELSE IF TYPE(DOMAIN heap.nodes, node) # "T_NODE"
         THEN WalkRaise("count_num_of_nodes: child node is not a node", info)
    ELSE Bind(WalkerTypes(heap, node, parent), LAMBDA ut :
            IF ut[1] = NT_UNKNOWN \/ ut[2] = NT_UNKNOWN \/ ut[3] = NT_UNKNOWN
            THEN WalkRaise("Cannot interpret node", info)
            ELSE Then(WalkChild1(heap, node, ut[1], info), LAMBDA r1 :
                 Then(WalkChild2(heap, node, ut[2], r1.info), LAMBDA r2 :
                 Then(WalkChild3(heap, node, ut[3], r2.info), LAMBDA r3 :
                      WalkReturn(1 + r1.num + r2.num + r3.num,
                                 [r3.info EXCEPT !.nodes =
                                     LeafTableInfo_addEntry(@, value_to_str(node),
                                                            value_to_str(node)).lti])))))

count_num_of_nodes_SkipNonNode(heap, node, parent, info) ==
    IF node = 0 \/ TYPE(DOMAIN heap.nodes, node) # "T_NODE" THEN WalkReturn(0, info)
    ELSE Bind(WalkerTypes(heap, node, parent), LAMBDA ut :
            IF ut[1] = NT_UNKNOWN \/ ut[2] = NT_UNKNOWN \/ ut[3] = NT_UNKNOWN
            THEN WalkRaise("Cannot interpret node", info)
            ELSE Then(WalkChild1(heap, node, ut[1],
                                 [info EXCEPT !.nodes =
                                     LeafTableInfo_addEntry(@, value_to_str(node),
                                                            value_to_str(node)).lti]),
                      LAMBDA r1 :
                 Then(WalkChild2(heap, node, ut[2], r1.info), LAMBDA r2 :
                 Then(WalkChild3(heap, node, ut[3], r2.info), LAMBDA r3 :
                      WalkReturn(1 + r1.num + r2.num + r3.num, r3.info)))))

count_num_of_nodes(heap, node, parent, info) ==
    IF node = 0 THEN WalkReturn(0, info)
    ELSE IF TYPE(DOMAIN heap.nodes, node) # "T_NODE"
         THEN WalkRaise("count_num_of_nodes: child node is not a node", info)
    ELSE Bind(WalkerTypes(heap, node, parent), LAMBDA ut :
            IF ut[1] = NT_UNKNOWN \/ ut[2] = NT_UNKNOWN \/ ut[3] = NT_UNKNOWN
            THEN WalkRaise("Cannot interpret node", info)
            ELSE Then(WalkChild1(heap, node, ut[1],
                                 [info EXCEPT !.nodes =
                                     LeafTableInfo_addEntry(@, value_to_str(node),
                                                            value_to_str(node)).lti]),
                      LAMBDA r1 :
                 Then(WalkChild2(heap, node, ut[2], r1.info), LAMBDA r2 :
                 Then(WalkChild3(heap, node, ut[3], r2.info), LAMBDA r3 :
                      WalkReturn(1 + r1.num + r2.num + r3.num, r3.info)))))

(***************************************************************************)
(* nodedump.c, part 3: the binary node encoder and the container           *)
(***************************************************************************)
NODEInfo_getTableByID(info, id) ==
    IF id = NT_ID THEN info.syms
    ELSE IF id = NT_VALUE THEN info.lits
    ELSE IF id = NT_IDTABLE THEN info.idtabs
    ELSE IF id = NT_ARGS THEN info.args
    ELSE IF id = NT_ENTRY THEN info.gentries
    ELSE info.nodes

\* DUMP_RAW_VALUE(vl_ans, vl): the bytes of vl go to the buffer and the tag
\* byte is vl_ans | (number of bytes << 4)
DUMP_RAW_VALUE(vl_ans, vl) ==
    [raised |-> FALSE, msg |-> "", tag |-> vl_ans + 16 * Len(value_to_bin(vl)),
     bytes |-> value_to_bin(vl)]

dump_node_value(info, heap, node, type, value, child_id) ==
    IF type = NT_NULL \/ type = NT_LONG THEN DUMP_RAW_VALUE(VL_RAW, value)
    ELSE IF type = NT_NODE
         THEN IF value = 0 THEN DUMP_RAW_VALUE(VL_RAW, value)
              ELSE IF /\ nd_type(heap.nodes[node]) = NodeType("NODE_ATTRASGN")
                      /\ value = 1 /\ child_id = 1
                   THEN DUMP_RAW_VALUE(VL_RAW, value)
              ELSE IF TYPE(DOMAIN heap.nodes, value) # "T_NODE"
                   THEN Raise("dump_node_value: child node is not a node")
              ELSE LET id == LeafTableInfo_keyToID(info.nodes, value_to_str(value))
                   IN  IF id = -1 THEN Raise("dump_node_value: child node not found")
                       ELSE DUMP_RAW_VALUE(VL_NODE, id)
    ELSE IF type = NT_VALUE
         THEN IF ~is_value_in_heap(value) THEN DUMP_RAW_VALUE(VL_RAW, value)
              ELSE LET id == LeafTableInfo_keyToID(info.lits, value_to_str(value))
                   IN  IF id = -1 THEN Raise("Cannot find literal")
                       ELSE DUMP_RAW_VALUE(VL_LIT, id)
    ELSE IF type = NT_ID
         THEN LET id == LeafTableInfo_keyToID(info.syms, INT2FIX(value))
              IN  IF id = -1 THEN Raise("Cannot find symbol ID")
                  ELSE DUMP_RAW_VALUE(VL_ID, id)
    ELSE IF type = NT_ENTRY \/ type = NT_ARGS \/ type = NT_IDTABLE
         THEN LET id == LeafTableInfo_keyToID(NODEInfo_getTableByID(info, type),
                                              value_to_str(value))
              IN  IF id = -1 THEN Raise("Cannot find some entry")
                  ELSE IF type = NT_ENTRY THEN DUMP_RAW_VALUE(VL_GVAR, id)
                  ELSE IF type = NT_IDTABLE THEN DUMP_RAW_VALUE(VL_IDTABLE, id)
                  ELSE DUMP_RAW_VALUE(VL_ARGS, id)
    ELSE Raise("Unknown child node type")

\* ut[] as dump_nodes computes it for a node
EncoderTypes(info, n) ==
    LET nt == nd_type(n)
        t0 == nodes_ctbl[nt]
        t1 == IF /\ nt = NodeType("NODE_OP_ASGN2")
                 /\ LeafTableInfo_keyToID(info.syms, INT2FIX(n.u1)) # -1
              THEN <<NT_ID, NT_ID, NT_ID>>
              ELSE t0
    IN  IF nt = NodeType("NODE_ARGS_AUX")
        THEN <<IF n.u1 = 0 THEN NT_NULL ELSE NT_ID,
               IF n.u2 = 0 THEN NT_NULL
               ELSE IF LeafTableInfo_keyToID(info.syms, INT2FIX(n.u2)) # -1
                    THEN NT_ID ELSE NT_LONG,
               IF n.u3 = 0 THEN NT_NULL ELSE NT_NODE>>
        ELSE t1

\* one pass of the loop of dump_nodes: the record of one node
DumpRecord(info, heap, node) ==
    LET n == heap.nodes[node]
    IN  Bind(EncoderTypes(info, n), LAMBDA ut :
        Then(dump_node_value(info, heap, node, ut[1], n.u1, 1), LAMBDA r0 :
        Then(dump_node_value(info, heap, node, ut[2], n.u2, 2), LAMBDA r1 :
        Then(dump_node_value(info, heap, node, ut[3], n.u3, 3), LAMBDA r2 :
        Bind(value_to_bin(n.flags \div 32), LAMBDA flags :
             Return(<<r0.tag, r1.tag, r2.tag, Len(flags)>> \o flags
                    \o r0.bytes \o r1.bytes \o r2.bytes))))))

RECURSIVE DumpLoop_Reversed(_, _, _, _, _)
DumpLoop_Reversed(info, heap, nodes_ary, i, bin) ==
    IF i > Len(nodes_ary) THEN Return(bin)
    ELSE Then(DumpRecord(info, heap, str_to_value(nodes_ary[i])),
              LAMBDA r : DumpLoop_Reversed(info, heap, nodes_ary, i + 1, r.str \o bin))

RECURSIVE DumpLoop(_, _, _, _, _)
DumpLoop(info, heap, nodes_ary, i, bin) ==
    IF i > Len(nodes_ary) THEN Return(bin)
    ELSE Then(DumpRecord(info, heap, str_to_value(nodes_ary[i])),
              LAMBDA r : DumpLoop(info, heap, nodes_ary, i + 1, bin \o r.str))

\* the string is resized to one byte more than was written: junk is what
\* that byte of the uninitialised buffer holds
dump_nodes(info, heap, junk) ==
    Then(DumpLoop(info, heap, HashKeys(info.nodes.vals), 1, <<>>),
         LAMBDA r : Return(r.str \o <<junk>>))

\* the loop over one identifier table: RAM identifiers become symbol ordinals
RECURSIVE IdtblToOrds(_, _, _)
IdtblToOrds(info, idtbl, j) ==
    IF j > Len(idtbl) THEN [raised |-> FALSE, msg |-> "", ary |-> idtbl]
    ELSE LET id == LeafTableInfo_keyToID(info.syms, idtbl[j])
         IN  IF id = -1
             THEN [raised |-> TRUE, msg |-> "Cannot find the symbol ID", ary |-> idtbl]
             ELSE IdtblToOrds(info, [idtbl EXCEPT ![j] = INT2FIX(id)], j + 1)

RECURSIVE IdtabsToOrds(_, _, _)
IdtabsToOrds(info, idtabs, i) ==
    IF i > Len(idtabs) THEN [raised |-> FALSE, msg |-> "", ary |-> idtabs]
    ELSE Then(IdtblToOrds(info, idtabs[i].v, 1),
              LAMBDA r : IdtabsToOrds(info, [idtabs EXCEPT ![i] = RArray(r.ary)], i + 1))

\* one args entry: node addresses become node ordinals, identifiers symbol ordinals
ArgsEntryToOrds(info, entry) ==
    LET nodeOrd(key) == IF CStr(key.v) = <<48>> THEN -1
                        ELSE LeafTableInfo_keyToID(info.nodes, key)
        symOrd(key)  == IF FIX2INT(key) # 0 THEN LeafTableInfo_keyToID(info.syms, key) ELSE -1
        e            == entry.v
    IN  IF Len(e) # 10 THEN [raised |-> TRUE, msg |-> "Corrupted args entry", ary |-> entry]
        ELSE IF \E ind \in {1, 2, 8, 9, 10} : CStr(e[ind].v) # <<48>> /\ nodeOrd(e[ind]) = -1
             THEN [raised |-> TRUE, msg |-> "Unknown NODE in args tables", ary |-> entry]
        ELSE IF \E ind \in {5, 6, 7} : FIX2INT(e[ind]) # 0 /\ symOrd(e[ind]) = -1
             THEN [raised |-> TRUE, msg |-> "Unknown symbolic ID in args tables", ary |-> entry]
        ELSE [raised |-> FALSE, msg |-> "",
              ary |-> RArray([ind \in 1..10 |->
                         IF ind \in {1, 2, 8, 9, 10} THEN INT2FIX(nodeOrd(e[ind]))
                         ELSE IF ind \in {5, 6, 7} THEN INT2FIX(symOrd(e[ind]))
                         ELSE e[ind]])]

RECURSIVE ArgsToOrds(_, _, _)
ArgsToOrds(info, args, i) ==
    IF i > Len(args) THEN [raised |-> FALSE, msg |-> "", ary |-> args]
    ELSE Then(ArgsEntryToOrds(info, args[i]),
              LAMBDA r : ArgsToOrds(info, [args EXCEPT ![i] = r.ary], i + 1))

\* returns the Hash, or what was raised
NODEInfo_toHash(info, heap, junk) ==
    Then(IdtabsToOrds(info, LeafTableInfo_getLeavesTable(info.idtabs).v, 1), LAMBDA idtabs :
    Then(ArgsToOrds(info, LeafTableInfo_getLeavesTable(info.args).v, 1), LAMBDA args :
    Then(dump_nodes(info, heap, junk), LAMBDA nodes :
         [raised |-> FALSE, msg |-> "",
          hash |-> [t              |-> "T_HASH",
                    MAGIC          |-> RString(NODEMARSHAL_MAGIC),
                    RUBY_PLATFORM  |-> RUBY_PLATFORM,
                    RUBY_VERSION   |-> RUBY_VERSION,
                    literals       |-> LeafTableInfo_getLeavesTable(info.lits),
                    symbols        |-> LeafTableInfo_getLeavesTable(info.syms),
                    global_entries |-> LeafTableInfo_getLeavesTable(info.gentries),
                    id_tables      |-> RArray(idtabs.ary),
                    args           |-> RArray(args.ary),
                    nodes          |-> RString(nodes.str),
                    num_of_nodes   |-> Qnil,
                    nodename       |-> Qnil,
                    filename       |-> Qnil,
                    filepath       |-> Qnil]])))

(***************************************************************************)
(* nodedump.c, part 4: loading marshalled nodes                            *)
(*                                                                         *)
(* A load in progress is [raised, msg, allocs, relocs, mem]: allocs lists  *)
(* what has been allocated so far, relocs is the NODEObjAddresses struct   *)
(* and mem is the memory the pointers in relocs point to.                  *)
(***************************************************************************)
IsNil(x) == x.t = "T_NIL"

\* the address of the i-th node placeholder, identifier table and args struct
\* that a load allocates (i counts from 0)
NewNodeAdr(i) == 512 + 8 * i

NewIdTblAdr(i) == 1024 + 8 * i

NewArgsAdr(i) == 1536 + 8 * i

\* Data_Make_Struct zero-fills the struct
NODEObjAddresses_new ==
    [syms_adr |-> <<>>, syms_len |-> 0, lits_adr |-> <<>>, lits_len |-> 0,
     idtbls_adr |-> <<>>, idtbls_len |-> 0, gvars_adr |-> <<>>, gvars_len |-> 0,
     nodes_adr |-> <<>>, nodes_len |-> 0, args_adr |-> <<>>, args_len |-> 0]

LoadStart ==
    [raised |-> FALSE, msg |-> "", allocs |-> <<>>, relocs |-> NODEObjAddresses_new,
     mem |-> [nodes |-> <<>>, idtbls |-> <<>>, args |-> <<>>]]

LoadRaise(ld, msg) == [ld EXCEPT !.raised = TRUE, !.msg = msg]

\* adr[ind] for a C array of len elements; reading outside it gives garbage
ArrayRead(adr, ind, garbage) ==
    IF ind >= 0 /\ ind < Len(adr) THEN adr[ind + 1] ELSE garbage

resolve_syms_ords(data, ld) ==
    LET tbl_val == data.symbols
    IN  IF IsNil(tbl_val) THEN LoadRaise(ld, "Cannot find symbols table")
        ELSE IF tbl_val.t # "T_ARRAY" THEN LoadRaise(ld, "Symbols table is not an array")
        ELSE LET syms == tbl_val.v
                 ok(i) == syms[i].t = "T_STRING" \/ syms[i].t = "T_FIXNUM"
                 ld1 == [ld EXCEPT
                           !.allocs = Append(@, "syms_adr"),
                           !.relocs.syms_len = Len(syms),
                           !.relocs.syms_adr =
                               [i \in 1..Len(syms) |->
                                   IF syms[i].t = "T_STRING" THEN rb_intern(CStr(syms[i].v))
                                   ELSE IF syms[i].t = "T_FIXNUM" THEN FIX2INT(syms[i])
                                   ELSE 0]]
             IN  IF \E i \in 1..Len(syms) : ~ok(i)
                 THEN LoadRaise(ld1, "Symbols table is corrupted")
                 ELSE ld1

resolve_lits_ords(data, ld) ==
    LET tbl_val == data.literals
    IN  IF IsNil(tbl_val) THEN LoadRaise(ld, "Cannot find literals table")
        ELSE IF tbl_val.t # "T_ARRAY" THEN LoadRaise(ld, "Literals table is not an array")
        ELSE [ld EXCEPT !.relocs.lits_adr = [i \in 1..Len(tbl_val.v) |-> tbl_val.v[i].v],
                        !.relocs.lits_len = Len(tbl_val.v)]

resolve_gvars_ords(data, ld, garbage) ==
    LET tbl_val == data.global_entries
    IN  IF IsNil(tbl_val) THEN LoadRaise(ld, "Cannot find global entries table")
        ELSE IF tbl_val.t # "T_ARRAY"
             THEN LoadRaise(ld, "Global entries table should be an array")
        ELSE [ld EXCEPT
                !.allocs = Append(@, "gvars_adr"),
                !.relocs.gvars_len = Len(tbl_val.v),
                !.relocs.gvars_adr =
                    [i \in 1..Len(tbl_val.v) |->
                        rb_global_entry(ArrayRead(ld.relocs.syms_adr, FIX2INT(tbl_val.v[i]),
                                                  garbage))]]

resolve_idtbls_ords_AllocEmpty(data, ld, garbage) ==
    LET tbls == data.id_tables.v
    IN  IF IsNil(data.id_tables) THEN LoadRaise(ld, "Cannot find id_tables entries")
        ELSE [ld EXCEPT
                !.allocs = Append(@, "idtbls_adr"),
                !.relocs.idtbls_len = Len(tbls),
                !.relocs.idtbls_adr = [i \in 1..Len(tbls) |-> NewIdTblAdr(i - 1)],
                !.mem.idtbls =
                    [i \in 1..Len(tbls) |->
                        [j \in 1..Len(tbls[i].v) |->
                            ArrayRead(ld.relocs.syms_adr, FIX2INT(tbls[i].v[j]), garbage)]]]

resolve_idtbls_ords(data, ld, garbage) ==
    LET tbl_val == data.id_tables
    IN  IF IsNil(tbl_val) THEN LoadRaise(ld, "Cannot find id_tables entries")
        ELSE LET tbls == tbl_val.v
             IN  [ld EXCEPT
                    !.allocs = Append(@, "idtbls_adr"),
                    !.relocs.idtbls_len = Len(tbls),
                    !.relocs.idtbls_adr =
                        [i \in 1..Len(tbls) |->
                            IF Len(tbls[i].v) = 0 THEN 0 ELSE NewIdTblAdr(i - 1)],
                    !.mem.idtbls =
                        [i \in 1..Len(tbls) |->
                            [j \in 1..Len(tbls[i].v) |->
                                ArrayRead(ld.relocs.syms_adr, FIX2INT(tbls[i].v[j]), garbage)]]]

resolve_nodes_ords(data, num_of_nodes, ld) ==
    LET tbl_val == data.nodes
    IN  IF IsNil(tbl_val) THEN LoadRaise(ld, "Cannot find nodes entries")
        ELSE IF tbl_val.t # "T_STRING" THEN LoadRaise(ld, "Nodes description must be a string")
        ELSE IF num_of_nodes < 0 THEN LoadRaise(ld, "negative allocation size (or too big)")
        ELSE [ld EXCEPT
                !.allocs = Append(@, "nodes_adr"),
                !.relocs.nodes_len = num_of_nodes,
                !.relocs.nodes_adr = [i \in 1..num_of_nodes |-> NewNodeAdr(i - 1)],
                !.mem.nodes = [i \in 1..num_of_nodes |->
                                  [flags |-> T_NODE, u1 |-> 0, u2 |-> 0, u3 |-> 0]]]

\* one args entry: the struct it is loaded into, or what is raised
LoadArgsEntry(ainfo_val, relocs) ==
    LET a == ainfo_val.v
        nodeOk(ind) == ~(FIX2INT(a[ind]) < -1 \/ FIX2INT(a[ind]) >= relocs.nodes_len)
        symOk(ind)  == ~(FIX2INT(a[ind]) < -1 \/ FIX2INT(a[ind]) >= relocs.syms_len)
        nodeOf(ind) == IF FIX2INT(a[ind]) = -1 THEN 0 ELSE relocs.nodes_adr[FIX2INT(a[ind]) + 1]
        symOf(ind)  == IF FIX2INT(a[ind]) = -1 THEN 0 ELSE relocs.syms_adr[FIX2INT(a[ind]) + 1]
    IN  IF ainfo_val.t # "T_ARRAY" \/ Len(a) # 10
        THEN [raised |-> TRUE, msg |-> "args entry is corrupted"]
        ELSE IF \E ind \in {1, 2, 8, 9, 10} : ~nodeOk(ind)
             THEN [raised |-> TRUE, msg |-> "Invalid node ordinal"]
        ELSE IF \E ind \in {5, 6, 7} : ~symOk(ind)
             THEN [raised |-> TRUE, msg |-> "Invalid symbol ID ordinal"]
        ELSE [raised |-> FALSE, msg |-> "",
              ainfo |-> [pre_init |-> nodeOf(1), post_init |-> nodeOf(2),
                         pre_args_num |-> FIX2INT(a[3]), post_args_num |-> FIX2INT(a[4]),
                         first_post_arg |-> symOf(5), rest_arg |-> symOf(6),
                         block_arg |-> symOf(7),
                         kw_args |-> nodeOf(8), kw_rest_arg |-> nodeOf(9),
                         opt_args |-> nodeOf(10)]]

RECURSIVE LoadArgs(_, _, _)
LoadArgs(args, i, ld) ==
    IF i > Len(args) THEN ld
    ELSE LET r   == LoadArgsEntry(args[i], ld.relocs)
             ld1 == [ld EXCEPT !.allocs = Append(@, "rb_args_info"),
                               !.relocs.args_adr = Append(@, NewArgsAdr(i - 1))]
         IN  IF r.raised THEN LoadRaise(ld1, r.msg)
             ELSE LoadArgs(args, i + 1, [ld1 EXCEPT !.mem.args = Append(@, r.ainfo)])

resolve_args_ords(data, ld) ==
    LET tbl_val == data.args
    IN  IF IsNil(tbl_val) THEN LoadRaise(ld, "Cannot find args entries table")
        ELSE IF tbl_val.t # "T_ARRAY" THEN LoadRaise(ld, "args description must be an array")
        ELSE LoadArgs(tbl_val.v, 1,
                      [ld EXCEPT !.allocs = Append(@, "args_adr"),
                                 !.relocs.args_len = Len(tbl_val.v)])

\* *bin++ at offset pos (from 0) of a Ruby string: its bytes, the NUL that
\* ends it and, behind that, whatever the heap holds
ReadByte(str, pos, garbage) ==
    IF pos < Len(str) THEN str[pos + 1]
    ELSE IF pos = Len(str) THEN 0
    ELSE garbage % 256

ResolveSlot_Unchecked(vl, u, relocs) ==
    LET adr == IF vl = VL_NODE THEN relocs.nodes_adr
               ELSE IF vl = VL_ID THEN relocs.syms_adr
               ELSE IF vl = VL_GVAR THEN relocs.gvars_adr
               ELSE IF vl = VL_IDTABLE THEN relocs.idtbls_adr
               ELSE IF vl = VL_ARGS THEN relocs.args_adr
               ELSE relocs.lits_adr
    IN  IF vl = VL_RAW THEN [msg |-> "", u |-> u]
        ELSE IF vl \notin VL_NODE..VL_LIT THEN [msg |-> "Unknown RTYPE", u |-> u]
        ELSE [msg |-> "", u |-> IF u < Len(adr) THEN adr[u + 1] ELSE 0]

ResolveSlot_FreshNode(vl, u, relocs) ==
    IF vl = VL_NODE /\ u < relocs.nodes_len
    THEN [msg |-> "", u |-> NewNodeAdr(relocs.nodes_len + u)]
    ELSE ResolveSlot_Unchecked(vl, u, relocs)

\* the resolution of one slot value read with location code vl
ResolveSlot(vl, u, relocs) ==
    IF vl = VL_RAW THEN [msg |-> "", u |-> u]
        ELSE IF vl = VL_NODE
             THEN IF u >= relocs.nodes_len THEN [msg |-> "Cannot resolve VL_NODE entry", u |-> u]
                  ELSE [msg |-> "", u |-> relocs.nodes_adr[u + 1]]
        ELSE IF vl = VL_ID
             THEN IF u >= relocs.syms_len THEN [msg |-> "Cannot resolve VL_ID entry", u |-> u]
                  ELSE [msg |-> "", u |-> relocs.syms_adr[u + 1]]
        ELSE IF vl = VL_GVAR
             THEN IF u >= relocs.gvars_len THEN [msg |-> "Cannot resolve VL_GVAR entry", u |-> u]
                  ELSE [msg |-> "", u |-> relocs.gvars_adr[u + 1]]
        ELSE IF vl = VL_IDTABLE
             THEN IF u >= relocs.idtbls_len
                  THEN [msg |-> "Cannot resolve VL_IDTABLE entry", u |-> u]
                  ELSE [msg |-> "", u |-> relocs.idtbls_adr[u + 1]]
        ELSE IF vl = VL_ARGS
             THEN IF u >= relocs.args_len THEN [msg |-> "Cannot resolve VL_ARGS entry", u |-> u]
                  ELSE [msg |-> "", u |-> relocs.args_adr[u + 1]]
        ELSE IF vl = VL_LIT
             THEN IF u >= relocs.lits_len THEN [msg |-> "Cannot resolve VL_LIT entry", u |-> u]
                  ELSE [msg |-> "", u |-> relocs.lits_adr[u + 1]]
        ELSE [msg |-> "Unknown RTYPE", u |-> u]

\* the record that starts at offset pos: the tag bytes, where its fields lie
\* and, if the record lies inside the string, its flags word and slot values
ReadRecord(str, pos, garbage) ==
    LET rtypes == [j \in 1..4 |-> ReadByte(str, pos + j - 1, garbage)]
        len(j) == rtypes[j] \div 16
        p0     == pos + 4
        p1     == p0 + rtypes[4]
        p2     == p1 + len(1)
        p3     == p2 + len(2)
        next   == p3 + len(3)
        field(from, to) == bin_to_value(SubSeq(str, from + 1, to))
    IN  [vl    |-> [j \in 1..3 |-> rtypes[j] % 16],
         next  |-> next,
         short |-> next > Len(str),
         flags |-> IF next > Len(str) THEN 0 ELSE field(p0, p1),
         u     |-> IF next > Len(str) THEN <<0, 0, 0>>
                   ELSE <<field(p1, p2), field(p2, p3), field(p3, next)>>]

RECURSIVE LoadLoop(_, _, _, _, _)
LoadLoop(str, i, pos, ld, garbage) ==
    IF i > ld.relocs.nodes_len THEN ld
    ELSE Bind(ReadRecord(str, pos, garbage), LAMBDA rec :
         Bind([j \in 1..3 |-> ResolveSlot(rec.vl[j], rec.u[j], ld.relocs)], LAMBDA r :
            IF rec.short THEN LoadRaise(ld, "Nodes binary dump is too short")
            ELSE IF r[1].msg # "" THEN LoadRaise(ld, r[1].msg)
            ELSE IF r[2].msg # "" THEN LoadRaise(ld, r[2].msg)
            ELSE IF r[3].msg # "" THEN LoadRaise(ld, r[3].msg)
            ELSE LoadLoop(str, i + 1, rec.next,
                          [ld EXCEPT !.mem.nodes[i] =
                              [flags |-> rec.flags * 32 + T_NODE,
                               u1 |-> r[1].u, u2 |-> r[2].u, u3 |-> r[3].u]],
                          garbage)))

load_nodes_from_str(data, ld, garbage) == LoadLoop(data.nodes.v, 1, 0, ld, garbage)

get_hash_strfield(hash, idtxt) ==
    LET str == hash[idtxt]
    IN  IF str.t # "T_STRING"
        THEN [raised |-> TRUE, msg |-> "Hash field is not a string", str |-> Qnil]
        ELSE [raised |-> FALSE, msg |-> "", str |-> str]

\* "" if the signatures are valid, otherwise what is raised
check_hash_magic(data) ==
    LET magic    == get_hash_strfield(data, "MAGIC")
        platform == get_hash_strfield(data, "RUBY_PLATFORM")
        version  == get_hash_strfield(data, "RUBY_VERSION")
    IN  IF magic.raised THEN magic.msg
        ELSE IF strcmp(NODEMARSHAL_MAGIC, magic.str.v) # 0 THEN "Bad value of MAGIC signature"
        ELSE IF platform.raised THEN platform.msg
        ELSE IF strcmp(RUBY_PLATFORM.v, platform.str.v) # 0
             THEN "Incompatible RUBY_PLATFORM value"
        ELSE IF version.raised THEN version.msg
        ELSE IF strcmp(RUBY_VERSION.v, version.str.v) # 0 THEN "Incompatible RUBY_VERSION value"
        ELSE ""

(***************************************************************************)
(* nodedump.c, part 5: the C-to-Ruby interface                             *)
(*                                                                         *)
(* self is the instance variables of a NodeMarshal object.  Each method    *)
(* returns what it raised or returned, self after the call and whether it  *)
(* leaves the garbage collector disabled.                                  *)
(***************************************************************************)
NodeMarshal_new ==
    [node |-> Qnil.v, nodename |-> Qnil, filename |-> Qnil, filepath |-> Qnil,
     nodeinfo |-> Qnil, nodeinfo_num_of_nodes |-> Qnil, nodehash |-> Qnil,
     num_of_nodes |-> Qnil, obj_addresses |-> Qnil]

m_nodedump_to_hash(self, heap, junk) ==
    IF IsNil(self.nodeinfo)
    THEN Bind(count_num_of_nodes(heap, self.node, self.node, NODEInfo_init), LAMBDA w :
         Bind([self EXCEPT !.nodeinfo = [t |-> "T_DATA", v |-> w.info]], LAMBDA self1 :
            IF w.raised
            THEN [raised |-> TRUE, msg |-> w.msg, ret |-> Qnil, self |-> self1,
                  gc_disabled |-> TRUE]
            ELSE Bind([self1 EXCEPT !.nodeinfo_num_of_nodes = INT2FIX(w.num)], LAMBDA self2 :
                 Bind(NODEInfo_toHash(w.info, heap, junk), LAMBDA h :
                    IF h.raised
                    THEN [raised |-> TRUE, msg |-> h.msg, ret |-> Qnil, self |-> self2,
                          gc_disabled |-> TRUE]
                    ELSE Bind([h.hash EXCEPT !.num_of_nodes = INT2FIX(w.num),
                                             !.nodename = self.nodename,
                                             !.filename = self.filename,
                                             !.filepath = self.filepath],
                              LAMBDA ans :
                                  [raised |-> FALSE, msg |-> "", ret |-> ans,
                                   self |-> [self2 EXCEPT !.nodehash = ans],
                                   gc_disabled |-> FALSE])))))
    ELSE [raised |-> FALSE, msg |-> "", ret |-> self.nodehash, self |-> self,
          gc_disabled |-> FALSE]

\* the part of m_nodedump_from_memory from resolve_syms_ords to load_nodes_from_str
LoadAll(data, num_of_nodes, ld, garbage) ==
    Then(resolve_syms_ords(data, ld), LAMBDA l1 :
    Then(resolve_lits_ords(data, l1), LAMBDA l2 :
    Then(resolve_gvars_ords(data, l2, garbage), LAMBDA l3 :
    Then(resolve_idtbls_ords(data, l3, garbage), LAMBDA l4 :
    Then(resolve_nodes_ords(data, num_of_nodes, l4), LAMBDA l5 :
    Then(resolve_args_ords(data, l5), LAMBDA l6 :
         load_nodes_from_str(data, l6, garbage)))))))

\* the three name fields are copied to self one after the other; a field
\* that is neither nil nor a String raises
SetNames(self, data) ==
    LET ok(val) == IsNil(val) \/ val.t = "T_STRING"
    IN  IF ~ok(data.nodename) THEN [msg |-> "nodename value is corrupted", self |-> self]
        ELSE IF ~ok(data.filename)
             THEN [msg |-> "filename value is corrupted",
                   self |-> [self EXCEPT !.nodename = data.nodename]]
        ELSE IF ~ok(data.filepath)
             THEN [msg |-> "filepath value is corrupted",
                   self |-> [self EXCEPT !.nodename = data.nodename,
                                         !.filename = data.filename]]
        ELSE [msg |-> "",
              self |-> [self EXCEPT !.nodename = data.nodename, !.filename = data.filename,
                                    !.filepath = data.filepath]]

m_nodedump_from_memory_PublishFirst(self, data, garbage) ==
    LET ld0 == [LoadStart EXCEPT !.allocs = <<"NODEObjAddresses">>]
        fail(msg, obj, ld) ==
            [raised |-> TRUE, msg |-> msg, self |-> obj, load |-> ld, gc_disabled |-> TRUE]
        num == FIX2INT(data.num_of_nodes)
    IN  IF data.t # "T_HASH" THEN fail("Input dump is corrupted", self, ld0)
        ELSE IF IsNil(data.num_of_nodes) THEN fail("num_of_nodes not found", self, ld0)
        ELSE Bind(check_hash_magic(data), LAMBDA magic :
             IF magic # "" THEN fail(magic, self, ld0)
             ELSE Bind(SetNames(self, data), LAMBDA names :
                  IF names.msg # "" THEN fail(names.msg, names.self, ld0)
                  ELSE Bind(LoadAll(data, num, ld0, garbage), LAMBDA ld :
                       IF ld.raised
                       THEN fail(ld.msg, [names.self EXCEPT !.num_of_nodes = INT2FIX(num)], ld)
                       ELSE [raised |-> FALSE, msg |-> "",
                             self |-> [names.self EXCEPT
                                          !.node = ArrayRead(ld.relocs.nodes_adr, 0, garbage),
                                          !.num_of_nodes = INT2FIX(num),
                                          !.obj_addresses = [t |-> "T_DATA", v |-> 0]],
                             load |-> ld, gc_disabled |-> FALSE])))

\* data is what Marshal.load makes of the dump
m_nodedump_from_memory(self, data, garbage) ==
    LET ld0 == [LoadStart EXCEPT !.allocs = <<"NODEObjAddresses">>]
        fail(msg, obj, ld) ==
            [raised |-> TRUE, msg |-> msg, self |-> obj, load |-> ld, gc_disabled |-> TRUE]
        num == FIX2INT(data.num_of_nodes)
    IN  IF data.t # "T_HASH" THEN fail("Input dump is corrupted", self, ld0)
        ELSE IF IsNil(data.num_of_nodes) THEN fail("num_of_nodes not found", self, ld0)
        ELSE Bind(check_hash_magic(data), LAMBDA magic :
             IF magic # "" THEN fail(magic, self, ld0)
             ELSE Bind(SetNames(self, data), LAMBDA names :
                  IF names.msg # "" THEN fail(names.msg, names.self, ld0)
                  ELSE Bind(LoadAll(data, num, ld0, garbage), LAMBDA ld :
                       IF ld.raised THEN fail(ld.msg, names.self, ld)
                       ELSE [raised |-> FALSE, msg |-> "",
                             self |-> [names.self EXCEPT
                                          !.node = ArrayRead(ld.relocs.nodes_adr, 0, garbage),
                                          !.num_of_nodes = INT2FIX(num),
                                          !.obj_addresses = [t |-> "T_DATA", v |-> 0]],
                             load |-> ld, gc_disabled |-> FALSE])))

NoCall == [op |-> "none", raised |-> FALSE, msg |-> ""]

EmptyHeap == [nodes |-> <<>>, args |-> <<>>]

MainIdle ==
    /\ g_heap = EmptyHeap
    /\ gc_disabled = FALSE
    /\ e_self = NodeMarshal_new
    /\ e_call = NoCall
    /\ d_dump = Qnil
    /\ d_self = NodeMarshal_new
    /\ d_load = LoadStart
    /\ d_call = NoCall


(***************************************************************************)
(* The codec's environment: byte strings to encode, texts to decode        *)
(***************************************************************************)
MaxLen == 4
MaxRaw == 6
MaxWs == 1
NumLong == 3

ByteVals == {0, 65, 255}

\* long inputs, around the length at which base85r_encode breaks the line
LongInput(k) == [i \in 1..(4 * BASE85R_STR_WIDTH - 2 + k) |-> (37 * i + 101 * k + 128) % 256]

Inputs == SeqsUpTo(ByteVals, MaxLen) \cup {LongInput(k) : k \in 1..NumLong}

\* 'A' (0), 'F' (5), a blank and a byte above 127
RawBytes == {65, 70, 32, 200}

RawTexts == SeqsUpTo(RawBytes, MaxRaw)

\* groups of five digits whose base-85 value is 2^32, 85^5 - 1 and
\* (85^5 - 1) - 2^32, and the group of value 0
OverflowGroups == {<<82, 23, 54, 12, 1>>, <<84, 84, 84, 84, 84>>, <<2, 61, 30, 72, 83>>,
                   <<0, 0, 0, 0, 0>>}

\* a header symbol and one such group, in the symbols of the alphabet
OverflowTexts ==
    {<<val_to_char[h + 1]>> \o [i \in 1..5 |-> val_to_char[g[i] + 1]] :
        h \in {0, 3}, g \in OverflowGroups}

\* what the int behind char_to_val[128..255] may hold
OobVals == {-1, 3, 90}

Whitespace == {32, 10}

\* the recognized symbols of a text, as digits, in order
RECURSIVE Digits(_, _)
Digits(text, oob) ==
    IF text = <<>> THEN <<>>
    ELSE LET d == CharToVal(Head(text), oob)
         IN  (IF d = -1 THEN <<>> ELSE <<d>>) \o Digits(Tail(text), oob)

\* p is a group boundary of text: no symbol, or the header and whole groups, before it
IsGroupBoundary(text, p) ==
    LET n == Len(Digits(SubSeq(text, 1, p), -1))
    IN  n = 0 \/ (n - 1) % 5 = 0

InsertAt(text, p, byte) == SubSeq(text, 1, p) \o <<byte>> \o SubSeq(text, p + 1, Len(text))

TableIdle ==
    /\ t_lti = LeafTableInfo_init
    /\ t_first = <<>>
    /\ t_call = [op |-> "none", key |-> Qnil, value |-> Qnil, ret |-> -1]
    /\ t_n = 0

SchemaIdle ==
    /\ s_info = <<>> /\ s_name = "" /\ s_ctbl = <<>> /\ s_call = NoCall /\ s_defined = FALSE

ValueIdle ==
    /\ v_val = <<>> /\ v_buf = <<>> /\ v_len = -1 /\ v_out = <<>> /\ v_phase = "idle"

CodecIdle ==
    /\ c_mode = "raw" /\ c_input = <<>> /\ c_text = <<>> /\ c_ws = 0
    /\ c_result = NoResult /\ c_oob = -1 /\ c_phase = "idle"

InitCodec ==
    /\ c_mode \in {"rt", "raw"}
    /\ c_input \in (IF c_mode = "rt" THEN Inputs ELSE {<<>>})
    /\ c_text \in (IF c_mode = "raw" THEN RawTexts \cup OverflowTexts ELSE {<<>>})
    /\ c_ws = 0
    /\ c_result = NoResult
    /\ c_oob = -1
    /\ c_phase = IF c_mode = "rt" THEN "start" ELSE "encoded"
    /\ TableIdle
    /\ MainIdle
    /\ ValueIdle
    /\ SchemaIdle

Encode ==
    /\ c_phase = "start"
    /\ ~base85r_encode(c_input).raised
    /\ c_text' = base85r_encode(c_input).str
    /\ c_phase' = "encoded"
    /\ UNCHANGED <<c_mode, c_input, c_ws, c_result, c_oob>>
    /\ UNCHANGED <<table_vars, main_vars, value_vars, schema_vars>>

InsertWs ==
    /\ c_phase = "encoded"
    /\ c_mode = "rt"
    /\ Len(c_input) <= MaxLen
    /\ c_ws < MaxWs
    /\ \E p \in 0..Len(c_text), byte \in Whitespace :
          /\ IsGroupBoundary(c_text, p)
          /\ c_text' = InsertAt(c_text, p, byte)
    /\ c_ws' = c_ws + 1
    /\ UNCHANGED <<c_mode, c_input, c_result, c_oob, c_phase>>
    /\ UNCHANGED <<table_vars, main_vars, value_vars, schema_vars>>

Decode ==
    /\ c_phase = "encoded"
    /\ \E oob \in OobVals :
          /\ c_oob' = oob
          /\ c_result' = base85r_decode(c_text, oob)
    /\ c_phase' = "decoded"
    /\ UNCHANGED <<c_mode, c_input, c_text, c_ws>>
    /\ UNCHANGED <<table_vars, main_vars, value_vars, schema_vars>>

NextCodec == Encode \/ InsertWs \/ Decode

SpecCodec == InitCodec /\ [][NextCodec]_vars

(***************************************************************************)
(* One table and its callers: any sequence of addEntry and keyToID calls   *)
(***************************************************************************)
MaxCalls == 4

\* "a", "b", "c"
TableKeys == {RString(<<97>>), RString(<<98>>), RString(<<99>>)}

TableValues == {INT2FIX(7), INT2FIX(9)}

InitTable ==
    /\ TableIdle
    /\ CodecIdle
    /\ MainIdle
    /\ ValueIdle
    /\ SchemaIdle

AddEntry ==
    /\ t_n < MaxCalls
    /\ \E key \in TableKeys, value \in TableValues :
          LET r == LeafTableInfo_addEntry(t_lti, key, value)
          IN  /\ t_lti' = r.lti
              /\ t_call' = [op |-> "addEntry", key |-> key, value |-> value, ret |-> r.id]
              /\ t_first' = IF \E i \in 1..Len(t_first) : t_first[i].key = key
                            THEN t_first
                            ELSE Append(t_first, [key |-> key, val |-> value])
    /\ t_n' = t_n + 1
    /\ UNCHANGED <<codec_vars, main_vars, value_vars, schema_vars>>

KeyToID ==
    /\ t_n < MaxCalls
    /\ \E key \in TableKeys :
          t_call' = [op |-> "keyToID", key |-> key, value |-> Qnil,
                     ret |-> LeafTableInfo_keyToID(t_lti, key)]
    /\ t_n' = t_n + 1
    /\ UNCHANGED <<t_lti, t_first>>
    /\ UNCHANGED <<codec_vars, main_vars, value_vars, schema_vars>>

NextTable == AddEntry \/ KeyToID

SpecTable == InitTable /\ [][NextTable]_vars

(***************************************************************************)
(* The two number conversions: one VALUE written by value_to_bin and read  *)
(* back by bin_to_value                                                    *)
(***************************************************************************)
\* the bytes a VALUE is made of here
ByteSamples == {0, 1, 255}

InitValue ==
    /\ \E size \in SizeofValue : v_val \in [1..size -> ByteSamples]
    /\ v_buf = <<>>
    /\ v_len = -1
    /\ v_out = <<>>
    /\ v_phase = "start"
    /\ CodecIdle
    /\ TableIdle
    /\ MainIdle
    /\ SchemaIdle

\* len = value_to_bin(val, buf)
ValueToBin ==
    /\ v_phase = "start"
    /\ v_buf' = value_to_bin_bytes(v_val).buf
    /\ v_len' = value_to_bin_bytes(v_val).len
    /\ v_phase' = "written"
    /\ UNCHANGED <<v_val, v_out>>
    /\ UNCHANGED <<codec_vars, table_vars, main_vars, schema_vars>>

\* bin_to_value(buf, len)
BinToValue ==
    /\ v_phase = "written"
    /\ v_out' = bin_to_value_bytes(v_buf, v_len, Len(v_val))
    /\ v_phase' = "read"
    /\ UNCHANGED <<v_val, v_buf, v_len>>
    /\ UNCHANGED <<codec_vars, table_vars, main_vars, schema_vars>>

NextValue == ValueToBin \/ BinToValue

SpecValue == InitValue /\ [][NextValue]_vars

(***************************************************************************)
(* Loading the extension: Init_nodemarshal on the schema table of the      *)
(* build, or on one with a slot kind of one entry changed                  *)
(***************************************************************************)
\* the slot kinds one slot of one entry is changed to
EditKinds == {NT_NODE, NT_ID}

\* nodes_child_info and the tables that differ from it in one slot kind
SchemaTables ==
    {nodes_child_info}
    \cup {[nodes_child_info EXCEPT ![pos][i + 1] = k] :
              pos \in 1..Len(nodes_child_info), i \in 1..3, k \in EditKinds}

\* the static array nodes_ctbl before Init_nodemarshal
ZeroTable == [nt \in 0..(NODES_CTBL_SIZE - 1) |-> <<0, 0, 0>>]

InitSchema ==
    /\ s_info \in SchemaTables
    /\ s_name \in {"NODE_LAMBDA", "NODE_PRELUDE"}
    /\ s_ctbl = ZeroTable
    /\ s_call = NoCall
    /\ s_defined = FALSE
    /\ CodecIdle
    /\ TableIdle
    /\ MainIdle
    /\ ValueIdle

\* Init_nodemarshal: init_nodes_table(nodes_ctbl, NODES_CTBL_SIZE); a raise
\* ends Init_nodemarshal
InitNodesTable ==
    /\ s_call.op = "none"
    /\ LET r == init_nodes_table(s_info, s_ctbl, s_name)
       IN  /\ s_ctbl' = r.ctbl
           /\ s_call' = [op |-> "init_nodes_table", raised |-> r.raised, msg |-> r.msg]
    /\ UNCHANGED <<s_info, s_name, s_defined>>
    /\ UNCHANGED <<codec_vars, table_vars, main_vars, value_vars>>

\* Init_nodemarshal after init_nodes_table returned: base85r_init_tables,
\* rb_define_class and the rb_define_method calls
DefineClass ==
    /\ s_call.op = "init_nodes_table"
    /\ ~s_call.raised
    /\ ~s_defined
    /\ s_defined' = TRUE
    /\ UNCHANGED <<s_info, s_name, s_ctbl, s_call>>
    /\ UNCHANGED <<codec_vars, table_vars, main_vars, value_vars>>

NextSchema == InitNodesTable \/ DefineClass

SpecSchema == InitSchema /\ [][NextSchema]_vars

\* C4: the k-th distinct key inserted into a table gets ordinal k - 1; a key
\* that was never inserted has ordinal -1; inserting a key again returns the
\* ordinal it already has and changes neither the size of the table nor the
\* value stored for the key; an ordinal, once assigned, never changes.
C4_OrdinalStability ==
    /\ [](\A k \in 1..Len(t_first) :
             LeafTableInfo_keyToID(t_lti, t_first[k].key) = k - 1)
    /\ [](\A key \in TableKeys :
             (\A k \in 1..Len(t_first) : t_first[k].key # key) =>
                 LeafTableInfo_keyToID(t_lti, key) = -1)
    /\ [](t_lti.pos = Len(t_first) /\ Len(t_lti.vals) = Len(t_first))
    /\ [](t_call.op = "addEntry" => t_call.ret = LeafTableInfo_keyToID(t_lti, t_call.key))
    /\ [](t_call.op = "keyToID" => t_call.ret = LeafTableInfo_keyToID(t_lti, t_call.key))
    /\ [][\A key \in TableKeys :
             LeafTableInfo_keyToID(t_lti, key) # -1 =>
                 /\ LeafTableInfo_keyToID(t_lti', key) = LeafTableInfo_keyToID(t_lti, key)
                 /\ rb_hash_aref(t_lti'.vals, key) = rb_hash_aref(t_lti.vals, key)
                 /\ (t_call'.op = "addEntry" /\ t_call'.key = key) => t_lti' = t_lti]_vars

\* "a" and "b" were inserted in this order and "a" has just been inserted again
C4_Witness ==
    /\ Len(t_first) = 2
    /\ t_first[1].key = RString(<<97>>) /\ t_first[2].key = RString(<<98>>)
    /\ t_n = 3
    /\ t_call.op = "addEntry" /\ t_call.key = RString(<<97>>) /\ t_call.ret = 0
    /\ t_call.value # t_first[1].val
    /\ LeafTableInfo_keyToID(t_lti, RString(<<98>>)) = 1
    /\ LeafTableInfo_keyToID(t_lti, RString(<<99>>)) = -1

(***************************************************************************)
(* The graphs to be marshalled.  A graph has up to MaxNodes nodes; node i  *)
(* lies at NodeAdr(i) on source line i, node 1 is the root, and the node   *)
(* slots of node i are null or refer to a node behind it, so that a node   *)
(* may have several parents but the graph has no cycle.                    *)
(***************************************************************************)
MaxNodes == 3

NodeAdr(i) == 56 + 8 * i

ArgsAdr(i) == 216 + 8 * i

\* a String where a node is expected
NotANode == CHOOSE str \in HostStrings : \A other \in HostStrings : str <= other

\* what the non-node slots of node i hold
Payload(i) ==
    IF i % 2 = 1 THEN [id |-> 2417, lit |-> 136, tbl |-> 168, entry |-> 200]
    ELSE [id |-> 2449, lit |-> 128, tbl |-> 160, entry |-> 192]

NodeRefs(i, n) == {0} \cup {NodeAdr(j) : j \in (i + 1)..n}

\* the receiver "self" of a NODE_ATTRASGN: the value 1 in place of a node
Self == 1

\* what the last node of a graph may hold where a node is expected
NonNodes(i, n) == IF i = n THEN {NotANode, Self} ELSE {}

\* a kind of enum node_type that nodes_child_info does not list, which the
\* last node of a graph may have
UnknownKinds(i, n) == IF i = n THEN {"NODE_TO_ARY"} ELSE {}

\* the identifier list of no identifiers, which the NODE_SCOPE that is the
\* last node of a graph may have
EmptyTables(i, n) == IF i = n THEN {CHOOSE adr \in DOMAIN HostIdTables : HostIdTables[adr] = <<>>}
                     ELSE {}

\* kind and node slots of node i of a graph of n nodes
ShapesAt(i, n) ==
    {[kind |-> "NODE_BLOCK", c1 |-> a, c2 |-> b] : a \in NodeRefs(i, n), b \in NodeRefs(i, n)}
    \cup {[kind |-> "NODE_BLOCK", c1 |-> x, c2 |-> 0] : x \in NonNodes(i, n)}
    \cup {[kind |-> "NODE_ATTRASGN", c1 |-> a, c2 |-> b] :
             a \in {Self} \cup NodeRefs(i, n), b \in {0} \cup (NonNodes(i, n) \ {NotANode})}
    \cup {[kind |-> k, c1 |-> a, c2 |-> 0] :
             k \in {"NODE_LASGN", "NODE_DSTR", "NODE_SCOPE", "NODE_ARGS"}, a \in NodeRefs(i, n)}
    \cup {[kind |-> k, c1 |-> 0, c2 |-> 0] : k \in {"NODE_GVAR", "NODE_NIL"}}
    \cup {[kind |-> k, c1 |-> 0, c2 |-> 0] : k \in UnknownKinds(i, n)}
    \cup {[kind |-> "NODE_SCOPE", c1 |-> 0, c2 |-> e] : e \in EmptyTables(i, n)}

\* what slot 2 of a NODE_ARGS_AUX or of the inner NODE_OP_ASGN2 may hold: a
\* number no identifier has, and a number that is also an identifier
AuxValues == {7, Payload(1).id}

\* the kinds whose slot kinds depend on the parent: one such node alone, and
\* a chain of two of them below a NODE_BLOCK
AuxChains ==
    {<<[kind |-> "NODE_ARGS_AUX", c1 |-> 0, c2 |-> v]>> : v \in AuxValues}
    \cup {<<[kind |-> "NODE_BLOCK", c1 |-> NodeAdr(2), c2 |-> 0],
            [kind |-> k, c1 |-> NodeAdr(3), c2 |-> v],
            [kind |-> k, c1 |-> 0, c2 |-> w]>> :
              k \in {"NODE_ARGS_AUX", "NODE_OP_ASGN2"}, v \in AuxValues, w \in AuxValues}

RECURSIVE ShapesFrom(_, _)
ShapesFrom(i, n) ==
    IF i > n THEN {<<>>}
    ELSE {<<s>> \o rest : s \in ShapesAt(i, n), rest \in ShapesFrom(i + 1, n)}

\* every node is referred to by a node before it
Connected(shapes) ==
    \A j \in 2..Len(shapes) :
        \E i \in 1..(j - 1) : shapes[i].c1 = NodeAdr(j) \/ shapes[i].c2 = NodeAdr(j)

NodeOf(i, s) ==
    LET flags == NodeFlags(s.kind, i)
        p     == Payload(i)
    IN  IF s.kind = "NODE_BLOCK" THEN [flags |-> flags, u1 |-> s.c1, u2 |-> 0, u3 |-> s.c2]
        ELSE IF s.kind = "NODE_LASGN" THEN [flags |-> flags, u1 |-> p.id, u2 |-> s.c1, u3 |-> 0]
        ELSE IF s.kind = "NODE_DSTR" THEN [flags |-> flags, u1 |-> p.lit, u2 |-> 0, u3 |-> s.c1]
        ELSE IF s.kind = "NODE_SCOPE"
             THEN [flags |-> flags, u1 |-> IF s.c2 = 0 THEN p.tbl ELSE s.c2, u2 |-> 0,
                   u3 |-> s.c1]
        ELSE IF s.kind = "NODE_ARGS" THEN [flags |-> flags, u1 |-> 0, u2 |-> 7, u3 |-> ArgsAdr(i)]
        ELSE IF s.kind = "NODE_ATTRASGN"
             THEN [flags |-> flags, u1 |-> s.c1, u2 |-> p.id, u3 |-> s.c2]
        ELSE IF s.kind = "NODE_GVAR" THEN [flags |-> flags, u1 |-> 0, u2 |-> 0, u3 |-> p.entry]
        ELSE IF s.kind = "NODE_ARGS_AUX"
             THEN [flags |-> flags, u1 |-> p.id, u2 |-> s.c2, u3 |-> s.c1]
        ELSE IF s.kind = "NODE_OP_ASGN2"
             THEN IF s.c1 = 0 THEN [flags |-> flags, u1 |-> p.id, u2 |-> s.c2, u3 |-> p.id]
                  ELSE [flags |-> flags, u1 |-> 0, u2 |-> 0, u3 |-> s.c1]
        ELSE [flags |-> flags, u1 |-> 0, u2 |-> 0, u3 |-> 0]

ArgsOf(i, s) ==
    [pre_init |-> 0, post_init |-> 0, pre_args_num |-> 1, post_args_num |-> 0,
     first_post_arg |-> 0, rest_arg |-> Payload(i).id, block_arg |-> 0,
     kw_args |-> 0, kw_rest_arg |-> 0, opt_args |-> s.c1]

HeapOf(shapes) ==
    LET n == Len(shapes)
        index(adr) == CHOOSE i \in 1..n : NodeAdr(i) = adr \/ ArgsAdr(i) = adr
    IN  [nodes |-> [adr \in {NodeAdr(i) : i \in 1..n} |-> NodeOf(index(adr), shapes[index(adr)])],
         args  |-> [adr \in {ArgsAdr(i) : i \in {j \in 1..n : shapes[j].kind = "NODE_ARGS"}} |->
                       ArgsOf(index(adr), shapes[index(adr)])]]

\* the graphs of up to max nodes
Graphs(max) ==
    {HeapOf(shapes) : shapes \in {s \in UNION {ShapesFrom(1, n) : n \in 1..max} :
                                      Connected(s)} \cup AuxChains}

\* what the byte behind the last record of the node stream may hold
JunkBytes == {0, 255}

\* what a read outside a C array may give
Garbage == {0, 2417}

\* "m", "f.rb", "/f.rb"
NodeName == RString(<<109>>)

FileName == RString(<<102, 46, 114, 98>>)

FilePath == RString(<<47, 102, 46, 114, 98>>)

\* what may happen to a container between to_hash and the load
Tampers == {"none", "MAGIC", "MAGIC_NUL", "RUBY_PLATFORM", "RUBY_VERSION", "num_of_nodes"}

Tamper(hash, how) ==
    IF how = "MAGIC" THEN [hash EXCEPT !.MAGIC.v[Len(hash.MAGIC.v)] = 48]
    ELSE IF how = "MAGIC_NUL" THEN [hash EXCEPT !.MAGIC.v = hash.MAGIC.v \o <<0, 88>>]
    ELSE IF how = "RUBY_PLATFORM" THEN [hash EXCEPT !.RUBY_PLATFORM.v = Tail(hash.RUBY_PLATFORM.v)]
    ELSE IF how = "RUBY_VERSION" THEN [hash EXCEPT !.RUBY_VERSION.v = hash.RUBY_VERSION.v \o <<48>>]
    ELSE IF how = "num_of_nodes" THEN [hash EXCEPT !.num_of_nodes = Qnil]
    ELSE hash

\* the length of the table of a container that a location code refers to
TableLenOf(hash, vl) ==
    IF vl = VL_NODE THEN FIX2INT(hash.num_of_nodes)
    ELSE IF vl = VL_ID THEN Len(hash.symbols.v)
    ELSE IF vl = VL_GVAR THEN Len(hash.global_entries.v)
    ELSE IF vl = VL_IDTABLE THEN Len(hash.id_tables.v)
    ELSE IF vl = VL_ARGS THEN Len(hash.args.v)
    ELSE IF vl = VL_LIT THEN Len(hash.literals.v)
    ELSE 0

\* a node stream whose first record has location code vl and value u in slot 1
RetagSlot(str, vl, u) ==
    LET p1 == 4 + str[4]
        p2 == p1 + str[1] \div 16
    IN  <<vl + 16 * Len(value_to_bin(u))>> \o SubSeq(str, 2, p1) \o value_to_bin(u)
        \o SubSeq(str, p2 + 1, Len(str))

\* an ordinal of a container may be replaced by one that lies at, or behind,
\* the end of the table it refers to: in slot 1 of the first record (with the
\* location code vl, 7 being no location code), in the first global entry, in
\* the first identifier list, or in the opt_args or rest_arg field of the
\* first args entry; or slot 1 of the first record may refer to the record
\* itself
NoCorruption == [what |-> "none", vl |-> 0, beyond |-> 0]

Corruptions ==
    {NoCorruption}
    \cup {[what |-> "slot", vl |-> vl, beyond |-> b] : vl \in VL_NODE..(VL_LIT + 1), b \in {0, 2}}
    \cup {[what |-> w, vl |-> 0, beyond |-> b] :
             w \in {"global_entries", "id_tables", "opt_args", "rest_arg"}, b \in {0, 2}}
    \cup {[what |-> "self", vl |-> VL_NODE, beyond |-> 0]}

Corrupt(hash, c) ==
    IF c.what = "slot"
    THEN [hash EXCEPT !.nodes.v = RetagSlot(@, c.vl, TableLenOf(hash, c.vl) + c.beyond)]
    ELSE IF c.what = "self" THEN [hash EXCEPT !.nodes.v = RetagSlot(@, VL_NODE, 0)]
    ELSE IF c.what = "global_entries" /\ hash.global_entries.v # <<>>
         THEN [hash EXCEPT !.global_entries.v[1] = INT2FIX(TableLenOf(hash, VL_ID) + c.beyond)]
    ELSE IF c.what = "id_tables" /\ hash.id_tables.v # <<>> /\ hash.id_tables.v[1].v # <<>>
         THEN [hash EXCEPT !.id_tables.v[1].v[1] = INT2FIX(TableLenOf(hash, VL_ID) + c.beyond)]
    ELSE IF c.what = "opt_args" /\ hash.args.v # <<>>
         THEN [hash EXCEPT !.args.v[1].v[10] = INT2FIX(TableLenOf(hash, VL_NODE) + c.beyond)]
    ELSE IF c.what = "rest_arg" /\ hash.args.v # <<>>
         THEN [hash EXCEPT !.args.v[1].v[6] = INT2FIX(TableLenOf(hash, VL_ID) + c.beyond)]
    ELSE hash

Init ==
    /\ g_heap \in Graphs(MaxNodes)
    /\ gc_disabled = FALSE
    /\ e_self = [NodeMarshal_new EXCEPT !.node = NodeAdr(1), !.nodename = NodeName,
                                        !.filename = FileName, !.filepath = FilePath]
    /\ e_call = NoCall
    /\ d_dump = Qnil
    /\ d_self = NodeMarshal_new
    /\ d_load = LoadStart
    /\ d_call = NoCall
    /\ CodecIdle
    /\ TableIdle
    /\ ValueIdle
    /\ SchemaIdle

\* obj.to_hash on the object that holds the graph
ToHash ==
    /\ \E junk \in JunkBytes :
          LET r == m_nodedump_to_hash(e_self, g_heap, junk)
          IN  /\ e_self' = r.self
              /\ e_call' = [op |-> "to_hash", raised |-> r.raised, msg |-> r.msg]
              /\ gc_disabled' = r.gc_disabled
    /\ UNCHANGED <<g_heap, d_dump, d_self, d_load, d_call>>
    /\ UNCHANGED <<codec_vars, table_vars, value_vars, schema_vars>>

\* NodeMarshal.new(:binmemory, dump) where dump is the marshalled container,
\* as it is, or with another fingerprint, or with an ordinal out of range
FromMemory ==
    /\ d_call.op = "none"
    /\ ~IsNil(e_self.nodehash)
    /\ \E how \in Tampers, c \in Corruptions, garbage \in Garbage :
          LET data == Corrupt(Tamper(e_self.nodehash, how), c)
              r    == m_nodedump_from_memory(NodeMarshal_new, data, garbage)
          IN  /\ how = "none" \/ c = NoCorruption
              /\ d_dump' = data
              /\ d_self' = r.self
              /\ d_load' = r.load
              /\ d_call' = [op |-> "from_memory", raised |-> r.raised, msg |-> r.msg]
              /\ gc_disabled' = r.gc_disabled
    /\ UNCHANGED <<g_heap, e_self, e_call>>
    /\ UNCHANGED <<codec_vars, table_vars, value_vars, schema_vars>>

Next == ToHash \/ FromMemory

Spec == Init /\ [][Next]_vars

(***************************************************************************)
(* Claims about graphs, tables and the container                           *)
(***************************************************************************)
\* the nodes a node refers to: its slots of kind NT_NODE and the node
\* fields of its args struct
Children(heap, adr) ==
    LET n  == heap.nodes[adr]
        ut == nodes_ctbl[nd_type(n)]
        a  == heap.args[n.u3]
    IN  ({n.u1 : x \in {ut[1]} \cap {NT_NODE}} \cup {n.u2 : x \in {ut[2]} \cap {NT_NODE}}
         \cup {n.u3 : x \in {ut[3]} \cap {NT_NODE}}
         \cup (IF ut[3] = NT_ARGS
               THEN {a.pre_init, a.post_init, a.kw_args, a.kw_rest_arg, a.opt_args}
               ELSE {}))
        \cap DOMAIN heap.nodes

RECURSIVE ReachableFrom(_, _)
ReachableFrom(heap, set) ==
    LET more == set \cup UNION {Children(heap, adr) : adr \in set}
    IN  IF more = set THEN set ELSE ReachableFrom(heap, more)

\* the distinct nodes of the graph
GraphNodes == ReachableFrom(g_heap, {e_self.node} \cap DOMAIN g_heap.nodes)

\* the records of a node stream, in the order they lie in it
RECURSIVE Records(_, _)
Records(str, pos) ==
    IF pos + 1 >= Len(str) THEN <<>>
    ELSE LET rec == ReadRecord(str, pos, 0)
         IN  IF rec.short THEN <<>> ELSE <<rec>> \o Records(str, rec.next)

Encoded == e_call.op = "to_hash" /\ ~e_call.raised /\ ~IsNil(e_self.nodehash)

\* C2 (as claimed): num_of_nodes is the number of distinct nodes of the graph,
\* which is the number of entries of the node table and the number of records
\* of the node stream.
C2_NumOfNodes ==
    Encoded =>
        LET num == FIX2INT(e_self.nodehash.num_of_nodes)
        IN  /\ num = Cardinality(GraphNodes)
            /\ num = e_self.nodeinfo.v.nodes.pos
            /\ num = Len(Records(e_self.nodehash.nodes.v, 0))

\* what one finds at an address that a load handed out
LoadedNode(ld, adr) ==
    ld.mem.nodes[CHOOSE i \in 1..Len(ld.relocs.nodes_adr) : ld.relocs.nodes_adr[i] = adr]

LoadedIdTable(ld, adr) ==
    ld.mem.idtbls[CHOOSE i \in 1..Len(ld.relocs.idtbls_adr) : ld.relocs.idtbls_adr[i] = adr]

LoadedArgs(ld, adr) ==
    ld.mem.args[CHOOSE i \in 1..Len(ld.relocs.args_adr) : ld.relocs.args_adr[i] = adr]

ArgsNodeFields == {"pre_init", "post_init", "kw_args", "kw_rest_arg", "opt_args"}

\* the pairs of values that lie in corresponding places of an original node
\* and a loaded node
SlotPairs(heap, ld, adr, ladr) ==
    LET n == heap.nodes[adr]
        m == LoadedNode(ld, ladr)
    IN  {<<n.u1, m.u1>>, <<n.u2, m.u2>>, <<n.u3, m.u3>>}
        \cup (IF n.u3 \in DOMAIN heap.args /\ m.u3 \in Range(ld.relocs.args_adr)
              THEN {<<heap.args[n.u3][f], LoadedArgs(ld, m.u3)[f]>> : f \in ArgsNodeFields}
              ELSE {})

\* the pairs <<original node, loaded node>> that walking both graphs in step meets
RECURSIVE Correspondence(_, _, _)
Correspondence(heap, ld, pairs) ==
    LET isPair(p) == p[1] \in DOMAIN heap.nodes /\ p[2] \in Range(ld.relocs.nodes_adr)
        more == pairs \cup
                UNION {{p \in SlotPairs(heap, ld, q[1], q[2]) : isPair(p)} : q \in pairs}
    IN  IF more = pairs THEN pairs ELSE Correspondence(heap, ld, more)

\* a value of the original graph and the value the loaded graph has in its place
SameValue(heap, ld, v, w) ==
    IF v \in DOMAIN heap.nodes THEN w \in Range(ld.relocs.nodes_adr)
    ELSE IF v \in DOMAIN HostIdTables
         THEN IF HostIdTables[v] = <<>> THEN w = 0
              ELSE /\ w # 0 /\ w \in Range(ld.relocs.idtbls_adr)
                   /\ LoadedIdTable(ld, w) = HostIdTables[v]
    ELSE IF v \in DOMAIN heap.args
         THEN /\ w \in Range(ld.relocs.args_adr)
              /\ \A f \in DOMAIN heap.args[v] :
                    \/ f \in ArgsNodeFields
                    \/ LoadedArgs(ld, w)[f] = heap.args[v][f]
    ELSE w = v

Isomorphic(heap, root, ld, lroot) ==
    /\ lroot \in Range(ld.relocs.nodes_adr)
    /\ LET pairs == Correspondence(heap, ld, {<<root, lroot>>})
       IN  /\ \A p, q \in pairs : (p[1] = q[1]) <=> (p[2] = q[2])
           /\ Cardinality(pairs) = ld.relocs.nodes_len
           /\ \A p \in pairs :
                 /\ LoadedNode(ld, p[2]).flags = heap.nodes[p[1]].flags
                 /\ \A s \in SlotPairs(heap, ld, p[1], p[2]) : SameValue(heap, ld, s[1], s[2])

Loaded == d_call.op = "from_memory"

\* C1 (as claimed): loading the container that to_hash made of a graph the
\* walker accepts gives a graph isomorphic to it: as many nodes, the same kind
\* and flags word for every node, and in every slot the same value under the
\* correspondence of the nodes.
C1_RoundTrip ==
    (Loaded /\ d_dump = e_self.nodehash) =>
        /\ ~d_call.raised
        /\ Isomorphic(g_heap, e_self.node, d_load, d_self.node)
        /\ FIX2INT(d_self.num_of_nodes) = Cardinality(GraphNodes)

\* C7 (as claimed): when to_hash or from_memory has returned or raised, the
\* garbage collector is enabled.
C7_GcReenabled == (e_call.op = "to_hash" \/ Loaded) => ~gc_disabled

\* C6 (as claimed): loading a container whose MAGIC, RUBY_PLATFORM or
\* RUBY_VERSION is not that of the running interpreter raises, before anything
\* is allocated and without setting anything on the receiver.
C6_FingerprintGate ==
    (/\ Loaded
     /\ \/ d_dump.MAGIC # RString(NODEMARSHAL_MAGIC)
        \/ d_dump.RUBY_PLATFORM # RUBY_PLATFORM
        \/ d_dump.RUBY_VERSION # RUBY_VERSION) =>
        /\ d_call.raised
        /\ d_load.allocs = <<>>
        /\ d_self = NodeMarshal_new

\* the entry of the symbols array that stands for an identifier
SymbolValue(id) == IF rb_id2str(id).t = "T_STRING" THEN rb_id2str(id) ELSE INT2FIX(id)

\* slot k of a node
SlotOf(n, k) == IF k = 1 THEN n.u1 ELSE IF k = 2 THEN n.u2 ELSE n.u3

\* an identifier list of the container, its ordinals replaced by the symbols
\* array's entries
IdTableSymbols(hash, i) ==
    [j \in 1..Len(hash.id_tables.v[i].v) |->
        LET ord == FIX2INT(hash.id_tables.v[i].v[j])
        IN  IF ord >= 0 /\ ord < Len(hash.symbols.v) THEN hash.symbols.v[ord + 1] ELSE Qnil]

\* the entries of a container's table that stand for the value of a slot of
\* kind NT_VALUE, NT_ID or NT_IDTABLE
EntriesFor(hash, kind, value) ==
    IF kind = NT_VALUE
    THEN {i \in 1..Len(hash.literals.v) : hash.literals.v[i] = RObject(g_heap, value)}
    ELSE IF kind = NT_ID
         THEN {i \in 1..Len(hash.symbols.v) : hash.symbols.v[i] = SymbolValue(value)}
    ELSE {i \in 1..Len(hash.id_tables.v) :
             IdTableSymbols(hash, i) = [j \in 1..Len(HostIdTables[value]) |->
                                           SymbolValue(HostIdTables[value][j])]}

LocationCode(kind) == IF kind = NT_VALUE THEN VL_LIT ELSE IF kind = NT_ID THEN VL_ID ELSE VL_IDTABLE

\* the slots of the graph that refer to a literal, an identifier or an
\* identifier list: <<node, slot, kind, value>>
LeafSlots ==
    {s \in {<<adr, k, nodes_ctbl[nd_type(g_heap.nodes[adr])][k], SlotOf(g_heap.nodes[adr], k)>> :
               adr \in GraphNodes, k \in 1..3} :
        \/ s[3] = NT_VALUE /\ is_value_in_heap(s[4])
        \/ s[3] = NT_ID
        \/ s[3] = NT_IDTABLE /\ s[4] \in DOMAIN HostIdTables}

\* C3: in the container of an encoded graph, for every slot that holds a
\* heap-resident literal, an identifier or an identifier list, the table of
\* its kind has exactly one entry for that value, and the slot's field in the
\* node's record carries the table's location code and the ordinal of that
\* entry -- however many slots hold the value.
C3_DedupIdempotence ==
    Encoded =>
        LET hash == e_self.nodehash
            recs == Records(hash.nodes.v, 0)
        IN  \A s \in LeafSlots :
               LET entries == EntriesFor(hash, s[3], s[4])
               IN  /\ Cardinality(entries) = 1
                   /\ \E i \in 1..Len(recs) :
                         /\ recs[i].flags = g_heap.nodes[s[1]].flags \div 32
                         /\ recs[i].vl[s[2]] = LocationCode(s[3])
                         /\ recs[i].u[s[2]] + 1 \in entries

\* an identifier list occupies the slots of two nodes of an encoded graph
C3_Witness ==
    /\ Encoded
    /\ \E s, t \in LeafSlots : s[1] # t[1] /\ s[3] = NT_IDTABLE /\ t[3] = NT_IDTABLE /\ s[4] = t[4]

\* C5: in the container of an encoded graph, element i of the literals,
\* symbols and global_entries arrays is the value that was inserted with the
\* key of ordinal i, the i-th identifier list is the list whose key has
\* ordinal i, the i-th record of the node stream describes the node whose
\* key has ordinal i in the node table, and a load fills placeholder i from
\* record i.
C5_PositionIsOrdinal ==
    Encoded =>
        LET info == e_self.nodeinfo.v
            hash == e_self.nodehash
            recs == Records(hash.nodes.v, 0)
            keyOf(lti, i) == CHOOSE key \in Range(HashKeys(lti.ids)) :
                                 LeafTableInfo_keyToID(lti, key) = i - 1
            hasKeys(lti, n) == /\ n = lti.pos
                               /\ \A i \in 1..n : \E key \in Range(HashKeys(lti.ids)) :
                                     LeafTableInfo_keyToID(lti, key) = i - 1
        IN  /\ hasKeys(info.lits, Len(hash.literals.v))
            /\ \A i \in 1..Len(hash.literals.v) :
                  hash.literals.v[i] = RObject(g_heap, str_to_value(keyOf(info.lits, i)))
            /\ hasKeys(info.syms, Len(hash.symbols.v))
            /\ \A i \in 1..Len(hash.symbols.v) :
                  hash.symbols.v[i] = SymbolValue(FIX2INT(keyOf(info.syms, i)))
            /\ hasKeys(info.gentries, Len(hash.global_entries.v))
            /\ \A i \in 1..Len(hash.global_entries.v) :
                  hash.global_entries.v[i] = rb_hash_aref(info.gentries.vals, keyOf(info.gentries, i))
            /\ hasKeys(info.idtabs, Len(hash.id_tables.v))
            /\ \A i \in 1..Len(hash.id_tables.v) :
                  i \in EntriesFor(hash, NT_IDTABLE, str_to_value(keyOf(info.idtabs, i)))
            /\ hasKeys(info.nodes, Len(recs))
            /\ \A i \in 1..Len(recs) :
                  recs[i].flags = g_heap.nodes[str_to_value(keyOf(info.nodes, i))].flags \div 32
            /\ (Loaded /\ ~d_call.raised /\ d_dump.nodes = hash.nodes) =>
                  \A i \in 1..d_load.relocs.nodes_len :
                     d_load.mem.nodes[i].flags \div 32 = recs[i].flags

\* a graph is encoded and loaded whose nodes, literals and symbols the walker
\* met in another order than that of their addresses
C5_Witness ==
    /\ Encoded /\ Loaded /\ ~d_call.raised /\ d_dump = e_self.nodehash
    /\ LET info == e_self.nodeinfo.v
       IN  /\ \E a, b \in GraphNodes :
                 /\ a < b
                 /\ LeafTableInfo_keyToID(info.nodes, value_to_str(b))
                       < LeafTableInfo_keyToID(info.nodes, value_to_str(a))
           /\ \E a, b \in HostStrings :
                 /\ a < b
                 /\ LeafTableInfo_keyToID(info.lits, value_to_str(a)) >= 0
                 /\ LeafTableInfo_keyToID(info.lits, value_to_str(b))
                       < LeafTableInfo_keyToID(info.lits, value_to_str(a))
                 /\ LeafTableInfo_keyToID(info.lits, value_to_str(b)) >= 0


\* the ordinal a node has in the walker's node table
OrdinalOf(adr) == LeafTableInfo_keyToID(e_self.nodeinfo.v.nodes, value_to_str(adr))

\* the record of the node stream that lies at a node's ordinal
RecordOf(adr) == Records(e_self.nodehash.nodes.v, 0)[OrdinalOf(adr) + 1]

\* the nodes from which the walker descended to a node; the root was entered
\* with itself as the parent
ParentsOf(adr) ==
    {p \in GraphNodes : adr \in Children(g_heap, p)}
    \cup (IF adr = e_self.node THEN {adr} ELSE {})

\* the slots <<node, slot>> of the graph that are node references: those the
\* schema declares so, as count_num_of_nodes reads it for a node below its
\* parent (the slots of a NODE_OP_ASGN2 below a NODE_OP_ASGN2 are identifiers)
NodeSlots ==
    {s \in GraphNodes \X (1..3) :
        /\ nodes_ctbl[nd_type(g_heap.nodes[s[1]])][s[2]] = NT_NODE
        /\ \E p \in ParentsOf(s[1]) :
               WalkerTypes(g_heap, s[1], p)[s[2]] # NT_ID}

\* the NODE_ATTRASGN nodes whose slot 1 holds the value 1
SelfNodes ==
    {adr \in GraphNodes : /\ nd_type(g_heap.nodes[adr]) = NodeType("NODE_ATTRASGN")
                          /\ g_heap.nodes[adr].u1 = 1}

\* the node-reference slots that hold something that is neither null nor a
\* node nor the value 1 in slot 1 of a NODE_ATTRASGN
BadNodeSlots ==
    {s \in NodeSlots :
        LET v == SlotOf(g_heap.nodes[s[1]], s[2])
        IN  /\ v # 0
            /\ v \notin DOMAIN g_heap.nodes
            /\ ~(s[1] \in SelfNodes /\ s[2] = 1)}

\* the nodes whose kind has no schema entry
UnknownKindNodes ==
    {adr \in GraphNodes : NT_UNKNOWN \in Range(nodes_ctbl[nd_type(g_heap.nodes[adr])])}

\* the step is the first to_hash call on the object, the one that walks the graph
FirstToHash == e_call.op = "none" /\ e_call'.op = "to_hash"

\* C12: a graph whose only irregularity is the value 1 in slot 1 of
\* NODE_ATTRASGN nodes is encoded; the record of such a node has location
\* code raw and value 1 in slot 1, and a load of the container puts the value
\* 1 into slot 1 of the node's placeholder.  The value 1 in any other slot
\* declared a node reference makes the encoding raise and no container is made.
C12_SelfSentinel ==
    /\ [][(FirstToHash /\ BadNodeSlots = {} /\ UnknownKindNodes = {}) => ~e_call'.raised]_vars
    /\ [](Encoded => \A adr \in SelfNodes :
                        RecordOf(adr).vl[1] = VL_RAW /\ RecordOf(adr).u[1] = 1)
    /\ []((Loaded /\ d_dump = e_self.nodehash) =>
             \A adr \in SelfNodes : d_load.mem.nodes[OrdinalOf(adr) + 1].u1 = 1)
    /\ [][(FirstToHash /\ \E s \in BadNodeSlots : SlotOf(g_heap.nodes[s[1]], s[2]) = 1) =>
             e_call'.raised]_vars
    /\ []((\E s \in BadNodeSlots : SlotOf(g_heap.nodes[s[1]], s[2]) = 1) =>
             IsNil(e_self.nodehash))

\* a graph was encoded and loaded in which one NODE_ATTRASGN node has the
\* value 1 in slot 1 and another one has a node there
C12_Witness ==
    /\ Encoded /\ Loaded /\ ~d_call.raised /\ d_dump = e_self.nodehash
    /\ \E adr \in SelfNodes, other \in GraphNodes :
          /\ nd_type(g_heap.nodes[other]) = NodeType("NODE_ATTRASGN")
          /\ g_heap.nodes[other].u1 = adr
          /\ d_load.mem.nodes[OrdinalOf(adr) + 1].u1 = 1
          /\ d_load.mem.nodes[OrdinalOf(other) + 1].u1 = d_load.relocs.nodes_adr[OrdinalOf(adr) + 1]

\* the graph is one node of a kind with three null slots, all slots 0
SingleNullNode ==
    /\ DOMAIN g_heap.nodes = {e_self.node}
    /\ LET n == g_heap.nodes[e_self.node]
       IN  /\ nodes_ctbl[nd_type(n)] = <<NT_NULL, NT_NULL, NT_NULL>>
           /\ n.u1 = 0 /\ n.u2 = 0 /\ n.u3 = 0

\* C13: a graph of one node of a kind with three null slots is encoded with
\* num_of_nodes 1, no symbols, no literals and a node stream of one record
\* whose three slot tags are raw with no value bytes; loading the container
\* gives a root of that kind whose three slots are null.
C13_SingleNode ==
    /\ [][(FirstToHash /\ SingleNullNode) => ~e_call'.raised]_vars
    /\ []((Encoded /\ SingleNullNode) =>
             LET hash == e_self.nodehash
                 recs == Records(hash.nodes.v, 0)
             IN  /\ hash.num_of_nodes = INT2FIX(1)
                 /\ hash.symbols = RArray(<<>>)
                 /\ hash.literals = RArray(<<>>)
                 /\ Len(recs) = 1
                 /\ SubSeq(hash.nodes.v, 1, 3) = <<VL_RAW, VL_RAW, VL_RAW>>
                 /\ recs[1].u = <<0, 0, 0>>
                 /\ recs[1].next = 4 + hash.nodes.v[4])
    /\ []((Loaded /\ d_dump = e_self.nodehash /\ SingleNullNode) =>
             /\ ~d_call.raised
             /\ d_load.relocs.nodes_len = 1
             /\ d_self.node = d_load.relocs.nodes_adr[1]
             /\ d_load.mem.nodes[1] = g_heap.nodes[e_self.node])

C13_Witness ==
    /\ SingleNullNode
    /\ Encoded /\ Loaded /\ ~d_call.raised /\ d_dump = e_self.nodehash
    /\ LoadedNode(d_load, d_self.node).u1 = 0
    /\ nd_type(LoadedNode(d_load, d_self.node)) = NodeType("NODE_NIL")


\* the load got as far as load_nodes_from_str: the last of the resolve_*
\* passes has loaded every args entry
Phase2Reached ==
    /\ Loaded
    /\ "args_adr" \in Range(d_load.allocs)
    /\ Len(d_load.mem.args) = Len(d_dump.args.v)

\* the table of the load that a location code names
RelocTable(vl) ==
    IF vl = VL_NODE THEN d_load.relocs.nodes_adr
    ELSE IF vl = VL_ID THEN d_load.relocs.syms_adr
    ELSE IF vl = VL_GVAR THEN d_load.relocs.gvars_adr
    ELSE IF vl = VL_IDTABLE THEN d_load.relocs.idtbls_adr
    ELSE IF vl = VL_ARGS THEN d_load.relocs.args_adr
    ELSE d_load.relocs.lits_adr

\* a record has a slot whose location code is not defined or whose ordinal
\* lies outside the table its location code names
OutOfRange(rec) ==
    \E j \in 1..3 :
        \/ rec.vl[j] \notin VL_RAW..VL_LIT
        \/ rec.vl[j] # VL_RAW /\ rec.u[j] >= Len(RelocTable(rec.vl[j]))

\* the placeholder as resolve_nodes_ords made it
BlankNode == [flags |-> T_NODE, u1 |-> 0, u2 |-> 0, u3 |-> 0]

\* C14: when a load reaches load_nodes_from_str, a record with a slot whose
\* location code names a table and whose ordinal is not below the table's
\* length, or whose location code is not defined, makes the load raise; the
\* placeholder of that record and of every later one stays as it was
\* allocated, and every slot of an earlier record is the raw value or the
\* element of the named table at the slot's ordinal.
C14_OrdinalRange ==
    Phase2Reached =>
        LET recs == Records(d_dump.nodes.v, 0)
        IN  \A i \in 1..Len(recs) :
               i <= d_load.relocs.nodes_len =>
                  IF \E m \in 1..i : OutOfRange(recs[m])
                  THEN d_call.raised /\ d_load.mem.nodes[i] = BlankNode
                  ELSE \A j \in 1..3 :
                          SlotOf(d_load.mem.nodes[i], j) =
                             IF recs[i].vl[j] = VL_RAW THEN recs[i].u[j]
                             ELSE RelocTable(recs[i].vl[j])[recs[i].u[j] + 1]

\* a load raised at the second record of a stream because slot 1 of the first
\* record names the identifier table with the ordinal that is the table's
\* length, the table not being empty
C14_Witness ==
    /\ Phase2Reached /\ d_call.raised
    /\ d_load.relocs.syms_len > 0
    /\ LET recs == Records(d_dump.nodes.v, 0)
       IN  /\ Len(recs) >= 2
           /\ recs[1].vl[1] = VL_ID /\ recs[1].u[1] = d_load.relocs.syms_len
           /\ d_load.mem.nodes[2] = BlankNode

\* C22: a load that raises, whatever the cause, leaves @node,
\* @num_of_nodes and @obj_addresses of the receiver as they were before the
\* call; and when they are set, the load did not raise, every placeholder
\* has been filled from its record and @node is placeholder 0.
C22_NoPartialDecode ==
    /\ (Loaded /\ d_call.raised) =>
          /\ d_self.node = NodeMarshal_new.node
          /\ d_self.num_of_nodes = NodeMarshal_new.num_of_nodes
          /\ d_self.obj_addresses = NodeMarshal_new.obj_addresses
    /\ (\/ d_self.node # NodeMarshal_new.node
        \/ d_self.num_of_nodes # NodeMarshal_new.num_of_nodes
        \/ d_self.obj_addresses # NodeMarshal_new.obj_addresses) =>
          /\ Loaded /\ ~d_call.raised
          /\ Len(d_load.mem.nodes) = FIX2INT(d_dump.num_of_nodes)
          /\ \A i \in 1..Len(d_load.mem.nodes) : d_load.mem.nodes[i] # BlankNode
          /\ d_self.node = d_load.relocs.nodes_adr[1]

\* a load raised for a node stream with fewer records than num_of_nodes
\* after it had filled the first placeholder, and @node is still not set
C22_Witness ==
    /\ Loaded /\ d_call.raised
    /\ d_call.msg = "Nodes binary dump is too short"
    /\ d_load.mem.nodes[1] # BlankNode
    /\ d_self.node = NodeMarshal_new.node
    /\ IsNil(d_self.obj_addresses)

\* C23 (as claimed): a to_hash call on an object on which to_hash has raised
\* raises again or returns a container; it does not return nil.
C23_NoPartialEncode ==
    [][(e_call.op = "to_hash" /\ e_call.raised /\ e_call'.op = "to_hash") =>
          \A junk \in JunkBytes :
              LET r == m_nodedump_to_hash(e_self, g_heap, junk)
              IN  r.raised \/ (~IsNil(r.ret) /\ r.ret = e_self'.nodehash)]_vars

\* the index of the first element of a sequence that equals x, 0 if none
IndexOf(seq, x) ==
    IF \E i \in 1..Len(seq) : seq[i] = x
    THEN CHOOSE i \in 1..Len(seq) : seq[i] = x /\ \A j \in 1..(i - 1) : seq[j] # x
    ELSE 0

\* the records a load has filled into their placeholders, by index
Filled == {i \in 1..Len(d_load.mem.nodes) : d_load.mem.nodes[i] # BlankNode}

\* C24: once a load has allocated the placeholders, there is one of them
\* for each of the num_of_nodes ordinals, allocated once, before the array
\* of args structs, and the array holds them ever after; in every record
\* the load has filled, a slot that names node ordinal j holds the
\* address of placeholder j, whether j is the ordinal of a later record,
\* of the record itself or of an earlier one, and so does every node field
\* of every args struct.
C24_TwoPhaseDecode ==
    (Loaded /\ "nodes_adr" \in Range(d_load.allocs)) =>
        LET recs == Records(d_dump.nodes.v, 0)
            num  == FIX2INT(d_dump.num_of_nodes)
        IN  /\ Cardinality({k \in 1..Len(d_load.allocs) : d_load.allocs[k] = "nodes_adr"}) = 1
            /\ "args_adr" \in Range(d_load.allocs) =>
                   IndexOf(d_load.allocs, "nodes_adr") < IndexOf(d_load.allocs, "args_adr")
            /\ d_load.relocs.nodes_len = num
            /\ Len(d_load.mem.nodes) = num
            /\ d_load.relocs.nodes_adr = [i \in 1..num |-> NewNodeAdr(i - 1)]
            /\ \A i \in Filled : \A j \in 1..3 :
                   recs[i].vl[j] = VL_NODE =>
                       SlotOf(d_load.mem.nodes[i], j) = NewNodeAdr(recs[i].u[j])
            /\ \A k \in 1..Len(d_load.mem.args) :
                   LET ord == FIX2INT(d_dump.args.v[k].v[10])
                   IN  d_load.mem.args[k].opt_args = IF ord = -1 THEN 0 ELSE NewNodeAdr(ord)

\* one load filled a record that names its own ordinal, a record that names
\* a later ordinal and a record that names an earlier one
C24_Witness ==
    /\ Loaded /\ "nodes_adr" \in Range(d_load.allocs)
    /\ LET recs == Records(d_dump.nodes.v, 0)
           names(i, j) == \E k \in 1..3 :
                             /\ recs[i].vl[k] = VL_NODE /\ recs[i].u[k] = j - 1
                             /\ SlotOf(d_load.mem.nodes[i], k) = d_load.relocs.nodes_adr[j]
       IN  /\ \E i \in Filled : names(i, i)
           /\ \E i \in Filled, j \in Filled : i < j /\ names(i, j)
           /\ \E i \in Filled, j \in Filled : j < i /\ names(i, j)

\* C25 (as claimed): a walk that returns has entered every node that can be
\* reached from the root, and each of them once: the nodes it registered are
\* the nodes of the graph and the number of its descents, which is what it
\* returns, is their number, whether or not a node is reached on two paths.
C25_EachNodeOnce ==
    Encoded =>
        /\ {str_to_value(key) : key \in Range(HashKeys(e_self.nodeinfo.v.nodes.vals))}
               = GraphNodes
        /\ FIX2INT(e_self.nodeinfo_num_of_nodes) = Cardinality(GraphNodes)

\* the slots of the graph that hold an identifier list of length 0:
\* <<node, slot>>
EmptyListSlots ==
    {s \in GraphNodes \X (1..3) :
        /\ nodes_ctbl[nd_type(g_heap.nodes[s[1]])][s[2]] = NT_IDTABLE
        /\ SlotOf(g_heap.nodes[s[1]], s[2]) \in DOMAIN HostIdTables
        /\ HostIdTables[SlotOf(g_heap.nodes[s[1]], s[2])] = <<>>}

\* C26 (as claimed): the container of an encoded graph has no row of length
\* 0 in id_tables; the record of a node with an identifier list of length 0
\* does not name a row of id_tables in that slot; and in a load of the
\* container the slot is the null pointer.
C26_EmptyListMarker ==
    /\ Encoded =>
          /\ \A i \in 1..Len(e_self.nodehash.id_tables.v) :
                Len(e_self.nodehash.id_tables.v[i].v) > 0
          /\ \A s \in EmptyListSlots : RecordOf(s[1]).vl[s[2]] # VL_IDTABLE
    /\ (Encoded /\ Loaded /\ ~d_call.raised /\ d_dump = e_self.nodehash) =>
          \A s \in EmptyListSlots : SlotOf(d_load.mem.nodes[OrdinalOf(s[1]) + 1], s[2]) = 0

\* C26 (amended): an identifier list of length 0 is registered like any
\* other list: the container has a row of length 0 for it in id_tables and
\* the record names that row by its ordinal, with the location code of
\* identifier lists.  The load puts the null pointer into the address table
\* for every row of length 0, allocating nothing for it, and the slot gets
\* the null pointer from the address table.
C26_EmptyListRow ==
    /\ Encoded =>
          \A s \in EmptyListSlots :
              /\ RecordOf(s[1]).vl[s[2]] = VL_IDTABLE
              /\ RecordOf(s[1]).u[s[2]] < Len(e_self.nodehash.id_tables.v)
              /\ e_self.nodehash.id_tables.v[RecordOf(s[1]).u[s[2]] + 1].v = <<>>
    /\ (Loaded /\ "idtbls_adr" \in Range(d_load.allocs)) =>
          \A i \in 1..Len(d_dump.id_tables.v) :
              d_dump.id_tables.v[i].v = <<>> <=> d_load.relocs.idtbls_adr[i] = 0
    /\ (Encoded /\ Loaded /\ ~d_call.raised /\ d_dump = e_self.nodehash) =>
          \A s \in EmptyListSlots :
              /\ d_load.relocs.idtbls_adr[RecordOf(s[1]).u[s[2]] + 1] = 0
              /\ SlotOf(d_load.mem.nodes[OrdinalOf(s[1]) + 1], s[2]) = 0

\* a graph with a NODE_SCOPE whose identifier list has length 0 below a
\* NODE_SCOPE with a list of one identifier was encoded and loaded
C26_Witness ==
    /\ Encoded /\ Loaded /\ ~d_call.raised /\ d_dump = e_self.nodehash
    /\ Len(d_dump.id_tables.v) = 2
    /\ \E s \in EmptyListSlots :
          /\ RecordOf(s[1]).vl[s[2]] = VL_IDTABLE
          /\ RecordOf(s[1]).u[s[2]] = 1
          /\ SlotOf(d_load.mem.nodes[OrdinalOf(s[1]) + 1], s[2]) = 0


\* the ordinals of a container's leaf tables that lie outside the table they
\* refer to
BadGlobalEntries(hash) ==
    {i \in 1..Len(hash.global_entries.v) :
        FIX2INT(hash.global_entries.v[i]) \notin 0..(Len(hash.symbols.v) - 1)}

BadIdTables(hash) ==
    {i \in 1..Len(hash.id_tables.v) :
        \E j \in 1..Len(hash.id_tables.v[i].v) :
            FIX2INT(hash.id_tables.v[i].v[j]) \notin 0..(Len(hash.symbols.v) - 1)}

BadArgs(hash) ==
    {i \in 1..Len(hash.args.v) :
        \/ \E f \in {1, 2, 8, 9, 10} :
              FIX2INT(hash.args.v[i].v[f]) \notin -1..(FIX2INT(hash.num_of_nodes) - 1)
        \/ \E f \in {5, 6, 7} :
              FIX2INT(hash.args.v[i].v[f]) \notin -1..(Len(hash.symbols.v) - 1)}

\* C15 (as claimed): a load of a container in which a global entry or an
\* identifier list holds an identifier ordinal outside the symbols table, or
\* an args entry holds a node ordinal outside the node count or an identifier
\* ordinal outside the symbols table, raises.
C15_LeafOrdinalRange ==
    (Loaded /\ (BadGlobalEntries(d_dump) # {} \/ BadIdTables(d_dump) # {} \/ BadArgs(d_dump) # {}))
        => d_call.raised


\* C16: once the walker has registered any node, the root has ordinal 0 in
\* its node table; the first record of the node stream of a container
\* describes the root; and a load that returns publishes the first
\* placeholder, which it filled from the first record, as the root.
C16_RootIsOrdinalZero ==
    /\ (e_call.op = "to_hash" /\ e_self.nodeinfo.v.nodes.pos > 0) => OrdinalOf(e_self.node) = 0
    /\ Encoded =>
          /\ RecordOf(e_self.node) = Records(e_self.nodehash.nodes.v, 0)[1]
          /\ RecordOf(e_self.node).flags = g_heap.nodes[e_self.node].flags \div 32
    /\ (Loaded /\ ~d_call.raised /\ d_load.relocs.nodes_len > 0) =>
          /\ d_self.node = d_load.relocs.nodes_adr[1]
          /\ d_load.mem.nodes[1].flags \div 32 = Records(d_dump.nodes.v, 0)[1].flags
    /\ (Loaded /\ ~d_call.raised /\ d_dump = e_self.nodehash) =>
          LoadedNode(d_load, d_self.node).flags = g_heap.nodes[e_self.node].flags

\* a graph of three nodes was encoded and loaded, and the loaded root refers
\* to a node whose placeholder is not the second one
C16_Witness ==
    /\ Encoded /\ Loaded /\ ~d_call.raised /\ d_dump = e_self.nodehash
    /\ Cardinality(GraphNodes) = 3
    /\ d_self.node = d_load.relocs.nodes_adr[1]
    /\ d_load.mem.nodes[1].u3 = d_load.relocs.nodes_adr[3]


\* what count_num_of_nodes raises for a graph it cannot walk
WalkerErrors == {"count_num_of_nodes: child node is not a node", "Cannot interpret node"}

\* C19: when a slot that the schema declares a node reference holds a value
\* that is neither null nor a node nor the NODE_ATTRASGN slot-1 value 1, the
\* walk of the graph raises and no container is made; and nothing but nodes
\* is ever registered in the node table.
C19_NonNodeRejected ==
    /\ [][(FirstToHash /\ BadNodeSlots # {}) =>
             (e_call'.raised /\ e_call'.msg \in WalkerErrors)]_vars
    /\ [](BadNodeSlots # {} => IsNil(e_self.nodehash))
    /\ [](e_call.op = "to_hash" =>
             \A key \in Range(HashKeys(e_self.nodeinfo.v.nodes.vals)) :
                 str_to_value(key) \in DOMAIN g_heap.nodes)

\* the walk of a graph of three nodes raised at a String in a node slot of
\* the last node, after the other nodes were registered
C19_Witness ==
    /\ e_call.op = "to_hash" /\ e_call.raised
    /\ e_call.msg = "count_num_of_nodes: child node is not a node"
    /\ e_self.nodeinfo.v.nodes.pos = 3
    /\ \E s \in BadNodeSlots : SlotOf(g_heap.nodes[s[1]], s[2]) = NotANode


\* the records of a node stream as their tag bytes describe them when the
\* location code of a slot is the high nibble of its tag byte and the byte
\* count the low nibble (codeIsHigh), or the other way round
RECURSIVE TaggedRecords(_, _, _)
TaggedRecords(str, pos, codeIsHigh) ==
    IF pos + 4 > Len(str) THEN <<>>
    ELSE LET tag(j)   == ReadByte(str, pos + j - 1, 0)
             code(j)  == IF codeIsHigh THEN tag(j) \div 16 ELSE tag(j) % 16
             count(j) == IF codeIsHigh THEN tag(j) % 16 ELSE tag(j) \div 16
             next     == pos + 4 + tag(4) + count(1) + count(2) + count(3)
         IN  <<[code |-> <<code(1), code(2), code(3)>>,
                count |-> <<count(1), count(2), count(3)>>,
                flen |-> tag(4), next |-> next]>>
             \o TaggedRecords(str, next, codeIsHigh)

\* the location code that belongs to slot k of a node of the graph
SlotCode(adr, k) ==
    LET kind == nodes_ctbl[nd_type(g_heap.nodes[adr])][k]
        v    == SlotOf(g_heap.nodes[adr], k)
    IN  IF kind = NT_NODE THEN (IF v \in DOMAIN g_heap.nodes THEN VL_NODE ELSE VL_RAW)
        ELSE IF kind = NT_VALUE THEN (IF is_value_in_heap(v) THEN VL_LIT ELSE VL_RAW)
        ELSE IF kind = NT_ID THEN VL_ID
        ELSE IF kind = NT_ENTRY THEN VL_GVAR
        ELSE IF kind = NT_IDTABLE THEN VL_IDTABLE
        ELSE IF kind = NT_ARGS THEN VL_ARGS
        ELSE VL_RAW

\* the node stream of the container is one record for every entry of the
\* node table, in table order: 4 tag bytes, the first three holding the
\* slot's location code and its byte count, which is in 0..4, the fourth the
\* byte count of the flags word, then that many value bytes
TagLayout(codeIsHigh) ==
    LET keys == HashKeys(e_self.nodeinfo.v.nodes.vals)
        str  == e_self.nodehash.nodes.v
        recs == TaggedRecords(str, 0, codeIsHigh)
    IN  /\ Len(recs) = Len(keys)
        /\ \A i \in 1..Len(recs) :
              /\ recs[i].next <= Len(str)
              /\ recs[i].flen = Len(value_to_bin(g_heap.nodes[str_to_value(keys[i])].flags \div 32))
              /\ \A j \in 1..3 :
                    /\ recs[i].code[j] = SlotCode(str_to_value(keys[i]), j)
                    /\ recs[i].count[j] \in 0..4

\* C17 (as claimed): every record of the node stream starts with 4 tag
\* bytes and is followed by its value bytes; each of the first 3 tag bytes
\* has the slot's location code in its high nibble and the slot's byte
\* count, in 0..4, in its low nibble; the 4th tag byte is the byte count of
\* the flags word; and the decoder reads the nibbles the same way.
C17_TagLayout ==
    Encoded =>
        /\ TagLayout(TRUE)
        /\ \A i \in 1..Len(Records(e_self.nodehash.nodes.v, 0)) :
              Records(e_self.nodehash.nodes.v, 0)[i].vl =
                  TaggedRecords(e_self.nodehash.nodes.v, 0, TRUE)[i].code


\* the kinds nodes_child_info lists
SchemaKinds == {NodeType(nodes_child_info[pos][1]) : pos \in 1..Len(nodes_child_info)}

\* nothing is registered in any table of the walk
NothingRegistered(self) ==
    IsNil(self.nodeinfo) \/
        \A id \in {NT_NODE, NT_ID, NT_VALUE, NT_IDTABLE, NT_ARGS, NT_ENTRY} :
            NODEInfo_getTableByID(self.nodeinfo.v, id).pos = 0

\* C20 (as claimed): the lookup of the slot kinds gives no NT_UNKNOWN for a
\* kind the schema table lists; and the encoding of a graph that holds a
\* node of a kind without schema entry raises with no node and no leaf
\* registered in any table.
C20_UnknownKindFatal ==
    /\ [](\A nt \in SchemaKinds : NT_UNKNOWN \notin Range(nodes_ctbl[nt]))
    /\ [][(FirstToHash /\ UnknownKindNodes # {}) =>
             (e_call'.raised /\ NothingRegistered(e_self'))]_vars


(***************************************************************************)
(* Claims about the text codec                                             *)
(***************************************************************************)

\* C8: for every byte string b, base85r_decode(base85r_encode(b)) = b; the
\* empty string encodes to exactly 2 bytes, which decode to the empty string.
C8_RoundTrip ==
    /\ (c_mode = "rt" /\ c_phase = "decoded" /\ c_ws = 0) =>
           (~c_result.raised /\ c_result.str = c_input)
    /\ (c_mode = "rt" /\ c_phase # "start" /\ c_ws = 0 /\ c_input = <<>>) =>
           Len(c_text) = 2

C8_Witness ==
    /\ c_mode = "rt" /\ c_phase = "decoded" /\ c_ws = 0
    /\ Len(c_input) = 4 * BASE85R_STR_WIDTH + 1
    /\ 255 \in Range(c_input)
    /\ 10 \in Range(c_text)
    /\ c_result = Return(c_input)

\* C9 (as claimed): whitespace inserted at group boundaries of base85r_encode(b)
\* never changes what base85r_decode returns and never makes it raise, the
\* empty b included.
C9_Tolerance ==
    (c_mode = "rt" /\ c_phase = "decoded") =>
        (~c_result.raised /\ c_result.str = c_input)

\* C10: base85r_decode raises, and returns no string, when the header symbol's
\* value is above 4 or the number of symbols after the header is not a
\* multiple of 5.
C10_FormatError ==
    c_phase = "decoded" =>
        LET ds == Digits(c_text, c_oob)
        IN  (ds # <<>> /\ (ds[1] > 4 \/ (Len(ds) - 1) % 5 # 0)) =>
                (c_result.raised /\ c_result.str = <<>>)

C10_Witness ==
    /\ c_phase = "decoded" /\ c_mode = "raw"
    /\ Len(c_text) = 6
    /\ LET ds == Digits(c_text, c_oob)
       IN  ds # <<>> /\ ds[1] <= 4 /\ Len(ds) = 5
    /\ c_result.raised

\* the value of five base-85 digits, most significant first, as the pair
\* <<value \div 65536, value % 65536>>
RECURSIVE DigitsValue(_, _, _)
DigitsValue(ds, hi, lo) ==
    IF ds = <<>> THEN <<hi, lo>>
    ELSE LET t == lo * 85 + Head(ds)
         IN  DigitsValue(Tail(ds), hi * 85 + t \div 65536, t % 65536)

\* the value of group k of an input, the input zero-padded, as such a pair
GroupValue(input, k) ==
    LET at(i) == IF 4 * (k - 1) + i <= Len(input) THEN input[4 * (k - 1) + i] ELSE 0
    IN  <<at(1) * 256 + at(2), at(3) * 256 + at(4)>>

\* text is, behind its first lead bytes: the header symbol of Len(input) % 4,
\* then one group of 5 symbols for every 4 bytes of the input, the symbols
\* being the base-85 digits of the group's value, then <<10, 32>> behind
\* every 14th group; and nothing else
EncodedLayout(text, input, lead) ==
    LET n      == Len(input)
        groups == (n + 3) \div 4
        at(k)  == lead + 1 + 5 * (k - 1) + 2 * ((k - 1) \div BASE85R_STR_WIDTH)
        isSym(c) == c < CHAR_TO_VAL_SIZE /\ char_to_val[c] # -1
    IN  /\ Len(text) = lead + 1 + 5 * groups + 2 * (groups \div BASE85R_STR_WIDTH)
        /\ isSym(text[lead + 1])
        /\ char_to_val[text[lead + 1]] = n % 4
        /\ \A k \in 1..groups :
              /\ \A i \in 1..5 : isSym(text[at(k) + i])
              /\ DigitsValue([i \in 1..5 |-> char_to_val[text[at(k) + i]]], 0, 0)
                    = GroupValue(input, k)
              /\ k % BASE85R_STR_WIDTH = 0 =>
                    (text[at(k) + 6] = 10 /\ text[at(k) + 7] = 32)

\* C11 (as claimed): the output of base85r_encode for an input of n bytes is
\* exactly one header symbol for n mod 4, then ceil(n / 4) groups of 5
\* symbols that are the big-endian base-85 digits of the zero-padded group,
\* with a 2-byte line break behind every 14 groups, and no other bytes.
C11_OutputFormat ==
    (c_mode = "rt" /\ c_phase = "encoded" /\ c_ws = 0) => EncodedLayout(c_text, c_input, 0)



(***************************************************************************)
(* Claims about the number conversions                                     *)
(***************************************************************************)
\* the big-endian bytes of a VALUE with every leading zero byte removed
Minimal(val) ==
    LET nz == {i \in 1..Len(val) : val[i] # 0}
    IN  IF nz = {} THEN <<>>
        ELSE SubSeq(val, CHOOSE i \in nz : \A j \in nz : i <= j, Len(val))

\* the number a VALUE of at most 31 significant bits is
RECURSIVE NumberOf(_)
NumberOf(val) ==
    IF val = <<>> THEN 0 ELSE NumberOf(SubSeq(val, 1, Len(val) - 1)) * 256 + val[Len(val)]

FitsInt(val) == \A i \in 1..Len(val) : val[i] # 0 => (i > Len(val) - 4 /\ (i = Len(val) - 3 => val[i] < 128))

\* C18: value_to_bin writes the big-endian bytes of v with every leading
\* zero byte removed and returns their number: nothing for v = 0, never a
\* first byte of 0, at most one byte for v < 256; and bin_to_value of what
\* it wrote is v again, for every v of the width of VALUE.
C18_MinimalBytes ==
    /\ v_phase \in {"written", "read"} =>
          /\ v_buf = Minimal(v_val)
          /\ v_len = Len(v_buf)
          /\ (\A i \in 1..Len(v_val) : v_val[i] = 0) => v_len = 0
          /\ v_len > 0 => v_buf[1] # 0
          /\ (\A i \in 1..(Len(v_val) - 1) : v_val[i] = 0) => v_len <= 1
          /\ FitsInt(v_val) => v_buf = value_to_bin(NumberOf(v_val))
    /\ v_phase = "read" =>
          /\ v_out = v_val
          /\ FitsInt(v_val) => bin_to_value(v_buf) = NumberOf(v_val)

\* a VALUE of 8 bytes with leading zero bytes, a zero byte inside and the
\* top bit of a byte set was written in 3 bytes and read back
C18_Witness ==
    /\ v_phase = "read"
    /\ v_val = <<0, 0, 0, 0, 0, 255, 0, 1>>
    /\ v_buf = <<255, 0, 1>>
    /\ v_out = v_val

(***************************************************************************)
(* Claims about the schema table                                           *)
(***************************************************************************)
\* the slots of entry pos of the table under check that hold a node or a value
TableIsval(pos) ==
    [i \in 1..3 |-> IF s_info[pos][i + 1] \in {NT_NODE, NT_VALUE} THEN 1 ELSE 0]

\* the kinds the switch of check_nodes_child_info has a case for
ListedKinds == UNION {isval_switch[g].kinds : g \in 1..Len(isval_switch)}

\* what the switch leaves in isval for a kind: all 0 when no case names it
ReferenceIsval(type) ==
    IF type \in ListedKinds
    THEN isval_switch[CHOOSE g \in 1..Len(isval_switch) : type \in isval_switch[g].kinds].isval
    ELSE <<0, 0, 0>>

InitCalled == s_call.op = "init_nodes_table"

\* C21 (as claimed): once init_nodes_table has returned, every entry of the
\* schema table has node or value kinds in exactly the slots the reference
\* classification gives for its kind; with any entry for which that is not
\* so the call raises, nodes_ctbl is not filled and no method is defined.
C21_SchemaSelfCheck ==
    /\ (InitCalled /\ ~s_call.raised) =>
          \A pos \in 1..Len(s_info) : TableIsval(pos) = ReferenceIsval(s_info[pos][1])
    /\ (InitCalled /\ \E pos \in 1..Len(s_info) :
                         TableIsval(pos) # ReferenceIsval(s_info[pos][1])) =>
          (s_call.raised /\ s_ctbl = ZeroTable /\ ~s_defined)

\* the entries whose kind the reference classification lists and whose node
\* and value slots are not the ones it gives
Mismatches ==
    {pos \in 1..Len(s_info) :
        s_info[pos][1] \in ListedKinds /\ TableIsval(pos) # ReferenceIsval(s_info[pos][1])}

\* C21 (amended): the self-check covers the entries whose kind the
\* reference classification lists.  Once init_nodes_table has returned none
\* of them is a mismatch and nodes_ctbl holds the slot kinds of every entry;
\* with a mismatch among them the call raises, nodes_ctbl stays as it was and
\* no method is ever defined.  An entry of a kind the classification does
\* not list is accepted as it is: the table of the build, which has such
\* entries, loads.
C21_ListedKindsChecked ==
    /\ (InitCalled /\ ~s_call.raised) =>
          /\ Mismatches = {}
          /\ \A pos \in 1..Len(s_info) :
                s_ctbl[NodeType(s_info[pos][1])] = <<s_info[pos][2], s_info[pos][3], s_info[pos][4]>>
          /\ s_info = nodes_child_info => s_ctbl = nodes_ctbl
    /\ (InitCalled /\ Mismatches # {}) =>
          (s_call.raised /\ s_ctbl = ZeroTable /\ ~s_defined)
    /\ (InitCalled /\ s_call.raised /\ s_name = "NODE_LAMBDA") => Mismatches # {}
    /\ s_call.raised => ~s_defined
    /\ (InitCalled /\ s_info = nodes_child_info /\ s_name = "NODE_LAMBDA") => ~s_call.raised

\* a table with a node in slot 2 of NODE_BLOCK, where the classification has
\* none, made init_nodes_table raise with nodes_ctbl untouched
C21_Witness ==
    /\ InitCalled /\ s_call.raised /\ s_name = "NODE_LAMBDA"
    /\ \E pos \in Mismatches : s_info[pos][1] = "NODE_BLOCK" /\ s_info[pos][3] = NT_NODE
    /\ s_ctbl = ZeroTable
    /\ ~s_defined

(***************************************************************************)
(* Claims about base85r_decode on arbitrary text                           *)
(***************************************************************************)
IsSymbol(byte) == \E i \in 1..85 : val_to_char[i] = byte

\* the loop of base85r_decode looks the byte at position i up
LookedUp(text, oob, i) ==
    /\ DecodeLengthOk(text)
    /\ ~DecodeLoop(SubSeq(text, 1, i - 1), oob, 1, DecodeStart).raised

\* C27 (as claimed): base85r_decode skips every byte 0..255 that is not a
\* symbol of the alphabet: every index into char_to_val lies in 0..127, such a
\* byte contributes no digit, and the call ends as it does with the byte
\* skipped, so the byte never makes it raise.
C27_SkipsNonSymbols ==
    c_phase = "decoded" =>
        /\ \A i \in 1..Len(c_text) :
               LookedUp(c_text, c_oob, i) =>
                   /\ c_text[i] \in 0..(CHAR_TO_VAL_SIZE - 1)
                   /\ ~IsSymbol(c_text[i]) => CharToVal(c_text[i], c_oob) = -1
        /\ c_result = base85r_decode(c_text, -1)

\* the inputs base85r_decode does not reject: length 2 or at least 6, no header
\* above 4, whole groups behind the header
NotRejected(text, oob) ==
    LET st == DecodeLoop(text, oob, 1, DecodeStart)
    IN  DecodeLengthOk(text) /\ ~st.raised /\ st.shift = 0

\* C28 (as claimed): for every input base85r_decode does not reject, a text
\* without any symbol and a non-zero header without a group included, the
\* out_len it computes is at least 0 and at most the number of bytes written.
C28_OutLenInRange ==
    (c_phase = "decoded" /\ NotRejected(c_text, c_oob)) =>
        LET st == DecodeLoop(c_text, c_oob, 1, DecodeStart)
        IN  /\ 0 <= decode_out_len(st)
            /\ decode_out_len(st) <= Len(st.out)

\* the four big-endian bytes of the base-85 value of five digits, modulo 2^32
GroupBytes(ds) ==
    LET v == DigitsValue(ds, 0, 0)
    IN  <<(v[1] % 65536) \div 256, v[1] % 256, v[2] \div 256, v[2] % 256>>

RECURSIVE AllGroupBytes(_)
AllGroupBytes(ds) ==
    IF Len(ds) < 5 THEN <<>>
    ELSE GroupBytes(SubSeq(ds, 1, 5)) \o AllGroupBytes(SubSeq(ds, 6, Len(ds)))

\* the text of a header digit and the digits of one group
TextOf(h, g) == <<val_to_char[h + 1]>> \o [i \in 1..5 |-> val_to_char[g[i] + 1]]

\* C29: base85r_decode accepts a well-formed text whatever the values of its
\* groups and returns, for each group of base-85 value v, the four big-endian
\* bytes of v modulo 2^32 (cut to the length the header gives), also when v is
\* 2^32 or more.
C29_GroupsModulo ==
    c_phase = "decoded" =>
        LET ds == Digits(c_text, c_oob)
        IN  (/\ DecodeLengthOk(c_text)
             /\ ds # <<>> /\ ds[1] <= 4
             /\ (Len(ds) - 1) % 5 = 0
             /\ (Len(ds) > 1 \/ ds[1] = 0)) =>
                /\ ~c_result.raised
                /\ Len(c_result.str) =
                       4 * ((Len(ds) - 1) \div 5) - (IF ds[1] # 0 THEN 4 - ds[1] ELSE 0)
                /\ c_result.str = SubSeq(AllGroupBytes(Tail(ds)), 1, Len(c_result.str))

\* the group of value 2^32 decoded to the bytes the group of value 0 decodes to
C29_Witness ==
    /\ c_phase = "decoded" /\ c_mode = "raw"
    /\ c_text = TextOf(0, <<82, 23, 54, 12, 1>>)
    /\ DigitsValue(Tail(Digits(c_text, c_oob)), 0, 0) = <<65536, 0>>
    /\ c_result = Return(<<0, 0, 0, 0>>)
    /\ c_result = base85r_decode(TextOf(0, <<0, 0, 0, 0, 0>>), c_oob)

(***************************************************************************)
(* Claims about the slot kinds of the walk and of the encoding             *)
(***************************************************************************)
\* what dump_node_value raises when a table lookup fails
LookupFailures ==
    {"dump_node_value: child node not found", "Cannot find literal",
     "Cannot find symbol ID", "Cannot find some entry"}

\* C30 (as claimed): for every node of an encoded graph the three slot kinds
\* dump_nodes uses are the three slot kinds count_num_of_nodes used when it
\* walked the node, NODE_OP_ASGN2 and NODE_ARGS_AUX included, and no table
\* lookup of dump_node_value fails.
C30_SameSlotKinds ==
    /\ Encoded =>
          \A adr \in GraphNodes : \A p \in ParentsOf(adr) :
              EncoderTypes(e_self.nodeinfo.v, g_heap.nodes[adr]) = WalkerTypes(g_heap, adr, p)
    /\ e_call.op = "to_hash" => e_call.msg \notin LookupFailures


============================================================================
